---- MODULE Spec2Model ----
(***************************************************************************)
(* The front end of the Cool compiler: the token source, the shift-reduce  *)
(* parser that yacc builds from the grammar rules and precedence table of  *)
(* CoolPyParser, the semantic actions that build the AST, the error rule   *)
(* p_error, and the entry of the semantic analyser.                        *)
(***************************************************************************)
EXTENDS Integers, Sequences, FiniteSets, TLC

(***************************************************************************)
(* The grammar: one entry per production of the p_ functions' docstrings,  *)
(* in the order of their definition (yacc numbers them in this order).     *)
(***************************************************************************)
Productions ==
  <<
    (*  1 *) [name |-> "program", 
             prod |-> <<"class_list">>,
             func |-> "p_program"],
    (*  2 *) [name |-> "class_list", 
             prod |-> <<"class_list", "class", "SEMICOLON">>,
             func |-> "p_class_list"],
    (*  3 *) [name |-> "class_list", 
             prod |-> <<"class", "SEMICOLON">>,
             func |-> "p_class_list"],
    (*  4 *) [name |-> "class", 
             prod |-> <<"CLASS", "TYPE", "LBRACE", "features_list_optional", "RBRACE">>,
             func |-> "p_class"],
    (*  5 *) [name |-> "class", 
             prod |-> <<"CLASS", "TYPE", "INHERITS", "TYPE", "LBRACE", "features_list_optional", "RBRACE">>,
             func |-> "p_class_inherits"],
    (*  6 *) [name |-> "features_list_optional", 
             prod |-> <<"features_list">>,
             func |-> "p_features_list_optional"],
    (*  7 *) [name |-> "features_list_optional", 
             prod |-> <<"empty">>,
             func |-> "p_features_list_optional"],
    (*  8 *) [name |-> "features_list", 
             prod |-> <<"features_list", "feature", "SEMICOLON">>,
             func |-> "p_features_list"],
    (*  9 *) [name |-> "features_list", 
             prod |-> <<"feature", "SEMICOLON">>,
             func |-> "p_features_list"],
    (* 10 *) [name |-> "feature", 
             prod |-> <<"ID", "LPAREN", "formal_parameters_list", "RPAREN", "COLON", "TYPE", "LBRACE", "expression", "RBRACE">>,
             func |-> "p_feature_method"],
    (* 11 *) [name |-> "feature", 
             prod |-> <<"ID", "LPAREN", "RPAREN", "COLON", "TYPE", "LBRACE", "expression", "RBRACE">>,
             func |-> "p_feature_method_no_formal_paramters"],
    (* 12 *) [name |-> "feature", 
             prod |-> <<"ID", "COLON", "TYPE", "ASSIGN", "expression">>,
             func |-> "p_feature_attribute_initialized"],
    (* 13 *) [name |-> "feature", 
             prod |-> <<"ID", "COLON", "TYPE">>,
             func |-> "p_feature_attribute"],
    (* 14 *) [name |-> "formal_parameters_list", 
             prod |-> <<"formal_parameters_list", "COMMA", "formal_parameter">>,
             func |-> "p_formal_paramters_list"],
    (* 15 *) [name |-> "formal_parameters_list", 
             prod |-> <<"formal_parameter">>,
             func |-> "p_formal_paramters_list"],
    (* 16 *) [name |-> "formal_parameter", 
             prod |-> <<"ID", "COLON", "TYPE">>,
             func |-> "p_formal_paramter"],
    (* 17 *) [name |-> "expression", 
             prod |-> <<"ID">>,
             func |-> "p_expression_object_identifier"],
    (* 18 *) [name |-> "expression", 
             prod |-> <<"INTEGER">>,
             func |-> "p_expression_integer_constant"],
    (* 19 *) [name |-> "expression", 
             prod |-> <<"BOOLEAN">>,
             func |-> "p_expression_boolean_constant"],
    (* 20 *) [name |-> "expression", 
             prod |-> <<"STRING">>,
             func |-> "p_expression_string_constant"],
    (* 21 *) [name |-> "expression", 
             prod |-> <<"SELF">>,
             func |-> "p_expression_self"],
    (* 22 *) [name |-> "expression", 
             prod |-> <<"LBRACE", "block_list", "RBRACE">>,
             func |-> "p_expression_block"],
    (* 23 *) [name |-> "block_list", 
             prod |-> <<"block_list", "expression", "SEMICOLON">>,
             func |-> "p_block_list"],
    (* 24 *) [name |-> "block_list", 
             prod |-> <<"expression", "SEMICOLON">>,
             func |-> "p_block_list"],
    (* 25 *) [name |-> "expression", 
             prod |-> <<"ID", "ASSIGN", "expression">>,
             func |-> "p_expression_assignment"],
    (* 26 *) [name |-> "expression", 
             prod |-> <<"expression", "DOT", "ID", "LPAREN", "arguments_list_optional", "RPAREN">>,
             func |-> "p_expression_dispatch"],
    (* 27 *) [name |-> "arguments_list_optional", 
             prod |-> <<"arguments_list">>,
             func |-> "p_arguments_list_optional"],
    (* 28 *) [name |-> "arguments_list_optional", 
             prod |-> <<"empty">>,
             func |-> "p_arguments_list_optional"],
    (* 29 *) [name |-> "arguments_list", 
             prod |-> <<"arguments_list", "COMMA", "expression">>,
             func |-> "p_arguments_list"],
    (* 30 *) [name |-> "arguments_list", 
             prod |-> <<"expression">>,
             func |-> "p_arguments_list"],
    (* 31 *) [name |-> "expression", 
             prod |-> <<"expression", "AT", "TYPE", "DOT", "ID", "LPAREN", "arguments_list_optional", "RPAREN">>,
             func |-> "p_expression_static_dispatch"],
    (* 32 *) [name |-> "expression", 
             prod |-> <<"ID", "LPAREN", "arguments_list_optional", "RPAREN">>,
             func |-> "p_expression_self_dispatch"],
    (* 33 *) [name |-> "expression", 
             prod |-> <<"expression", "PLUS", "expression">>,
             func |-> "p_expression_math_operations"],
    (* 34 *) [name |-> "expression", 
             prod |-> <<"expression", "MINUS", "expression">>,
             func |-> "p_expression_math_operations"],
    (* 35 *) [name |-> "expression", 
             prod |-> <<"expression", "MULTIPLY", "expression">>,
             func |-> "p_expression_math_operations"],
    (* 36 *) [name |-> "expression", 
             prod |-> <<"expression", "DIVIDE", "expression">>,
             func |-> "p_expression_math_operations"],
    (* 37 *) [name |-> "expression", 
             prod |-> <<"expression", "LT", "expression">>,
             func |-> "p_expression_math_comparisons"],
    (* 38 *) [name |-> "expression", 
             prod |-> <<"expression", "LTEQ", "expression">>,
             func |-> "p_expression_math_comparisons"],
    (* 39 *) [name |-> "expression", 
             prod |-> <<"expression", "EQ", "expression">>,
             func |-> "p_expression_math_comparisons"],
    (* 40 *) [name |-> "expression", 
             prod |-> <<"LPAREN", "expression", "RPAREN">>,
             func |-> "p_expression_with_parenthesis"],
    (* 41 *) [name |-> "expression", 
             prod |-> <<"IF", "expression", "THEN", "expression", "ELSE", "expression", "FI">>,
             func |-> "p_expression_if_conditional"],
    (* 42 *) [name |-> "expression", 
             prod |-> <<"WHILE", "expression", "LOOP", "expression", "POOL">>,
             func |-> "p_expression_while_loop"],
    (* 43 *) [name |-> "expression", 
             prod |-> <<"let_expression">>,
             func |-> "p_expression_let"],
    (* 44 *) [name |-> "let_expression", 
             prod |-> <<"LET", "ID", "COLON", "TYPE", "IN", "expression">>,
             func |-> "p_expression_let_simple"],
    (* 45 *) [name |-> "let_expression", 
             prod |-> <<"nested_lets", "COMMA", "LET", "ID", "COLON", "TYPE">>,
             func |-> "p_expression_let_simple"],
    (* 46 *) [name |-> "let_expression", 
             prod |-> <<"LET", "ID", "COLON", "TYPE", "ASSIGN", "expression", "IN", "expression">>,
             func |-> "p_expression_let_initialized"],
    (* 47 *) [name |-> "let_expression", 
             prod |-> <<"nested_lets", "COMMA", "LET", "ID", "COLON", "TYPE", "ASSIGN", "expression">>,
             func |-> "p_expression_let_initialized"],
    (* 48 *) [name |-> "nested_lets", 
             prod |-> <<"ID", "COLON", "TYPE", "IN", "expression">>,
             func |-> "p_inner_lets_simple"],
    (* 49 *) [name |-> "nested_lets", 
             prod |-> <<"nested_lets", "COMMA", "ID", "COLON", "TYPE">>,
             func |-> "p_inner_lets_simple"],
    (* 50 *) [name |-> "nested_lets", 
             prod |-> <<"ID", "COLON", "TYPE", "ASSIGN", "expression", "IN", "expression">>,
             func |-> "p_inner_lets_initialized"],
    (* 51 *) [name |-> "nested_lets", 
             prod |-> <<"nested_lets", "COMMA", "ID", "COLON", "TYPE", "ASSIGN", "expression">>,
             func |-> "p_inner_lets_initialized"],
    (* 52 *) [name |-> "expression", 
             prod |-> <<"CASE", "expression", "OF", "actions_list", "ESAC">>,
             func |-> "p_expression_case"],
    (* 53 *) [name |-> "actions_list", 
             prod |-> <<"actions_list", "action">>,
             func |-> "p_actions_list"],
    (* 54 *) [name |-> "actions_list", 
             prod |-> <<"action">>,
             func |-> "p_actions_list"],
    (* 55 *) [name |-> "action", 
             prod |-> <<"ID", "COLON", "TYPE", "ACTION", "expression", "SEMICOLON">>,
             func |-> "p_action_expression"],
    (* 56 *) [name |-> "expression", 
             prod |-> <<"NEW", "TYPE">>,
             func |-> "p_expression_new"],
    (* 57 *) [name |-> "expression", 
             prod |-> <<"ISVOID", "expression">>,
             func |-> "p_expression_isvoid"],
    (* 58 *) [name |-> "expression", 
             prod |-> <<"INT_COMP", "expression">>,
             func |-> "p_expression_integer_complement"],
    (* 59 *) [name |-> "expression", 
             prod |-> <<"NOT", "expression">>,
             func |-> "p_expression_boolean_complement"],
    (* 60 *) [name |-> "empty", 
             prod |-> <<>>,
             func |-> "p_empty"]
  >>

\* CoolPyParser.precedence: lowest level first, as yacc reads the table.
\* The table with the rows of the additive and the multiplicative operators
\* exchanged.
precedence_additive_above ==
  << [assoc |-> "right",    toks |-> {"ASSIGN"}],
     [assoc |-> "right",    toks |-> {"NOT"}],
     [assoc |-> "nonassoc", toks |-> {"LTEQ", "LT", "EQ"}],
     [assoc |-> "left",     toks |-> {"MULTIPLY", "DIVIDE"}],
     [assoc |-> "left",     toks |-> {"PLUS", "MINUS"}],
     [assoc |-> "right",    toks |-> {"ISVOID"}],
     [assoc |-> "right",    toks |-> {"INT_COMP"}],
     [assoc |-> "left",     toks |-> {"AT"}],
     [assoc |-> "left",     toks |-> {"DOT"}] >>

\* The table with the comparisons left-associative.
precedence_comparisons_left ==
  << [assoc |-> "right",    toks |-> {"ASSIGN"}],
     [assoc |-> "right",    toks |-> {"NOT"}],
     [assoc |-> "left",     toks |-> {"LTEQ", "LT", "EQ"}],
     [assoc |-> "left",     toks |-> {"PLUS", "MINUS"}],
     [assoc |-> "left",     toks |-> {"MULTIPLY", "DIVIDE"}],
     [assoc |-> "right",    toks |-> {"ISVOID"}],
     [assoc |-> "right",    toks |-> {"INT_COMP"}],
     [assoc |-> "left",     toks |-> {"AT"}],
     [assoc |-> "left",     toks |-> {"DOT"}] >>

\* The table with the additive operators right-associative.
precedence_additive_right ==
  << [assoc |-> "right",    toks |-> {"ASSIGN"}],
     [assoc |-> "right",    toks |-> {"NOT"}],
     [assoc |-> "nonassoc", toks |-> {"LTEQ", "LT", "EQ"}],
     [assoc |-> "right",    toks |-> {"PLUS", "MINUS"}],
     [assoc |-> "left",     toks |-> {"MULTIPLY", "DIVIDE"}],
     [assoc |-> "right",    toks |-> {"ISVOID"}],
     [assoc |-> "right",    toks |-> {"INT_COMP"}],
     [assoc |-> "left",     toks |-> {"AT"}],
     [assoc |-> "left",     toks |-> {"DOT"}] >>

\* The table with a row for IN above all others, so that the rules ending in
\* IN expression are reduced before an operator is shifted.
precedence_in_above ==
  << [assoc |-> "right",    toks |-> {"ASSIGN"}],
     [assoc |-> "right",    toks |-> {"NOT"}],
     [assoc |-> "nonassoc", toks |-> {"LTEQ", "LT", "EQ"}],
     [assoc |-> "left",     toks |-> {"PLUS", "MINUS"}],
     [assoc |-> "left",     toks |-> {"MULTIPLY", "DIVIDE"}],
     [assoc |-> "right",    toks |-> {"ISVOID"}],
     [assoc |-> "right",    toks |-> {"INT_COMP"}],
     [assoc |-> "left",     toks |-> {"AT"}],
     [assoc |-> "left",     toks |-> {"DOT"}],
     [assoc |-> "left",     toks |-> {"IN"}] >>

precedence ==
  << [assoc |-> "right",    toks |-> {"ASSIGN"}],
     [assoc |-> "right",    toks |-> {"NOT"}],
     [assoc |-> "nonassoc", toks |-> {"LTEQ", "LT", "EQ"}],
     [assoc |-> "left",     toks |-> {"PLUS", "MINUS"}],
     [assoc |-> "left",     toks |-> {"MULTIPLY", "DIVIDE"}],
     [assoc |-> "right",    toks |-> {"ISVOID"}],
     [assoc |-> "right",    toks |-> {"INT_COMP"}],
     [assoc |-> "left",     toks |-> {"AT"}],
     [assoc |-> "left",     toks |-> {"DOT"}] >>

(***************************************************************************)
(* Grammar analysis, as yacc performs it when it builds the parsing table. *)
(* The Grammar object g carries the productions, the precedence table and  *)
(* what is computed from them.                                             *)
(***************************************************************************)
\* Production 0 is the augmented start rule S' -> program that yacc adds.
Augmented(P) ==
  [p \in 0..Len(P) |->
     IF p = 0 THEN [name |-> "S'", prod |-> <<"program">>, func |-> ""] ELSE P[p]]

Nonterminals(P) == {P[p].name : p \in DOMAIN P}

Terminals(P) ==
  UNION {{P[p].prod[i] : i \in 1..Len(P[p].prod)} : p \in DOMAIN P} \ Nonterminals(P)

RECURSIVE NullableFix(_, _)
NullableFix(P, S) ==
  LET T == S \cup {P[p].name : p \in {q \in DOMAIN P :
                     \A i \in 1..Len(P[q].prod) : P[q].prod[i] \in S}}
  IN  IF T = S THEN S ELSE NullableFix(P, T)

\* FIRST of a symbol sequence under the approximation F of FIRST.
FirstOfSeq(g, F, s) ==
  UNION {F[s[i]] : i \in {j \in 1..Len(s) :
                            \A k \in 1..(j - 1) : s[k] \in g.Nullable}}

RECURSIVE FirstFix(_, _)
FirstFix(g, F) ==
  LET G == [x \in DOMAIN F |->
              F[x] \cup UNION {FirstOfSeq(g, F, g.Productions[p].prod) :
                                 p \in {q \in DOMAIN g.Productions :
                                          g.Productions[q].name = x}}]
  IN  IF G = F THEN F ELSE FirstFix(g, G)

\* The places <<q, j>> where the symbol n occurs in a right-hand side.
Occurrences(P, n) ==
  {qj \in UNION {{<<q, j>> : j \in 1..Len(P[q].prod)} : q \in DOMAIN P} :
     P[qj[1]].prod[qj[2]] = n}

\* What follows place qj in its production.
Rest(P, qj) == SubSeq(P[qj[1]].prod, qj[2] + 1, Len(P[qj[1]].prod))

RECURSIVE FollowFix(_, _)
FollowFix(g, F) ==
  LET G == [n \in DOMAIN F |->
              F[n] \cup UNION {
                FirstOfSeq(g, g.First, Rest(g.Productions, qj)) \cup
                (IF \A i \in qj[2] + 1..Len(g.Productions[qj[1]].prod) :
                      g.Productions[qj[1]].prod[i] \in g.Nullable
                 THEN F[g.Productions[qj[1]].name] ELSE {}) :
                qj \in Occurrences(g.Productions, n)}]
  IN  IF G = F THEN F ELSE FollowFix(g, G)

(***************************************************************************)
(* LR items <<p, d>>: production p with d symbols before the dot.  A state *)
(* of the automaton is named by its kernel items.                          *)
(***************************************************************************)
NoSymbol == "."

NextSym(P, it) ==
  IF it[2] < Len(P[it[1]].prod) THEN P[it[1]].prod[it[2] + 1] ELSE NoSymbol

Complete(P, it) == it[2] = Len(P[it[1]].prod)

\* The nonterminals whose productions the closure adds for nonterminal n.
RECURSIVE CornerFix(_, _)
CornerFix(P, S) ==
  LET T == S \cup {P[p].prod[1] : p \in {q \in DOMAIN P :
                     /\ P[q].name \in S
                     /\ P[q].prod # << >>
                     /\ \E r \in DOMAIN P : P[r].name = P[q].prod[1]}}
  IN  IF T = S THEN S ELSE CornerFix(P, T)

WithSymbols(g) ==
  [Nonterminals |-> Nonterminals(g.Productions),
   Terminals    |-> Terminals(g.Productions)] @@ g

WithNullable(g) == [Nullable |-> NullableFix(g.Productions, {})] @@ g

WithFirst(g) ==
  [First |-> FirstFix(g, [x \in g.Terminals \cup g.Nonterminals |->
                            IF x \in g.Terminals THEN {x} ELSE {}])] @@ g

WithFollow(g) ==
  [Follow |-> FollowFix(g, [n \in g.Nonterminals |->
                              IF n = "S'" THEN {"$end"} ELSE {}])] @@ g

WithCorners(g) ==
  [Corners |-> [n \in g.Nonterminals |-> CornerFix(g.Productions, {n})]] @@ g

\* The Grammar object after yacc's analysis.
Grammar ==
  WithCorners(WithFollow(WithFirst(WithNullable(WithSymbols(
    [Productions |-> Augmented(Productions), Precedence |-> precedence])))))

Closure(g, K) ==
  K \cup {<<p, 0>> : p \in {q \in DOMAIN g.Productions :
            g.Productions[q].name \in
              UNION {g.Corners[NextSym(g.Productions, it)] :
                       it \in {i \in K : NextSym(g.Productions, i)
                                           \in g.Nonterminals}}}}

Goto(g, K, x) ==
  {<<it[1], it[2] + 1>> :
     it \in {i \in Closure(g, K) : NextSym(g.Productions, i) = x}}

StartState == {<<0, 0>>}

\* The lookahead set of a completed item of the closed state I.  For an item
\* that has consumed symbols it is the set of terminals that can follow its
\* left-hand side; for a production with an empty right-hand side it is what
\* follows the nonterminal in the items of I that introduce it.
RECURSIVE IntroducedBefore(_, _, _)
IntroducedBefore(g, I, n) ==
  UNION {IF it[2] + 2 <= Len(g.Productions[it[1]].prod)
         THEN g.First[g.Productions[it[1]].prod[it[2] + 2]]
         ELSE IF it[2] = 0 /\ g.Productions[it[1]].name # n
         THEN IntroducedBefore(g, I, g.Productions[it[1]].name)
         ELSE g.Follow[g.Productions[it[1]].name] :
         it \in {i \in I : NextSym(g.Productions, i) = n}}

Lookaheads(g, I, p) ==
  IF g.Productions[p].prod = << >>
  THEN IntroducedBefore(g, I, g.Productions[p].name)
  ELSE g.Follow[g.Productions[p].name]

(***************************************************************************)
(* The parsing table, entry by entry: what yacc's table construction puts  *)
(* in state K for the token a, conflicts resolved by precedence.  An entry *)
(* is a record: act says what the loop does, p is the production to reduce *)
(* by or the state to shift to.                                            *)
(***************************************************************************)
\* The productions state I (closed) can reduce by on token a.
Reductions(g, I, a) ==
  {it[1] : it \in {i \in I : /\ Complete(g.Productions, i)
                             /\ i[1] # 0
                             /\ a \in Lookaheads(g, I, i[1])}}

CanShift(g, I, a) == \E it \in I : NextSym(g.Productions, it) = a

\* Precedence of a token: its row in the table, else yacc's ('right', 0).
TokenPrecedence(prec, a) ==
  IF \E i \in 1..Len(prec) : a \in prec[i].toks
  THEN [assoc |-> prec[CHOOSE j \in 1..Len(prec) : a \in prec[j].toks].assoc,
        level |-> CHOOSE j \in 1..Len(prec) : a \in prec[j].toks]
  ELSE [assoc |-> "right", level |-> 0]

\* The rightmost terminal of a symbol sequence, if it has one.
RightmostTerminal(g, s) ==
  IF \E i \in 1..Len(s) : s[i] \in g.Terminals
  THEN s[CHOOSE i \in 1..Len(s) :
           /\ s[i] \in g.Terminals
           /\ \A j \in (i + 1)..Len(s) : s[j] \notin g.Terminals]
  ELSE NoSymbol

\* Precedence of a production: that of its rightmost terminal.
ProductionPrecedence(g, p) ==
  TokenPrecedence(g.Precedence, RightmostTerminal(g, g.Productions[p].prod))

\* A shift/reduce conflict on a token of precedence s against production r
\* of precedence rp.
ResolveConflict(s, rp, r) ==
  IF s.level < rp.level \/ (s.level = rp.level /\ rp.assoc = "left")
  THEN [act |-> "reduce", p |-> r]
  ELSE IF s.level = rp.level /\ rp.assoc = "nonassoc"
  THEN [act |-> "error", p |-> 0]
  ELSE [act |-> "shift", p |-> 0]

\* The entry for token a given the reductions reds of the state and whether
\* it can shift a.  Of two reductions yacc keeps the production defined first.
Chosen(g, a, reds, shift) ==
  IF reds = {}
  THEN IF shift THEN [act |-> "shift", p |-> 0] ELSE [act |-> "error", p |-> 0]
  ELSE IF shift
  THEN ResolveConflict(TokenPrecedence(g.Precedence, a),
                       ProductionPrecedence(g, CHOOSE q \in reds : \A q2 \in reds : q <= q2),
                       CHOOSE q \in reds : \A q2 \in reds : q <= q2)
  ELSE [act |-> "reduce", p |-> CHOOSE q \in reds : \A q2 \in reds : q <= q2]

ParserAction(g, K, a) ==
  IF a = "$end" /\ <<0, 1>> \in K THEN [act |-> "accept", p |-> 0]
  ELSE Chosen(g, a, Reductions(g, Closure(g, K), a), CanShift(g, Closure(g, K), a))

\* The tokens that have an entry in the state of closure I.
ActionKeys(g, I) ==
  ({NextSym(g.Productions, it) : it \in I} \cap g.Terminals)
  \cup UNION {Lookaheads(g, I, it[1]) :
                it \in {i \in I : Complete(g.Productions, i) /\ i[1] # 0}}
  \cup (IF <<0, 1>> \in I THEN {"$end"} ELSE {})

(***************************************************************************)
(* The automaton and its tables, as yacc.yacc builds them.  States are      *)
(* numbered, the start state 0.                                             *)
(***************************************************************************)
RECURSIVE LR0Items(_, _, _)
LR0Items(g, done, todo) ==
  IF todo = {} THEN done
  ELSE LR0Items(g, done \cup todo,
         UNION {{Goto(g, K, x) :
                   x \in {NextSym(g.Productions, it) : it \in Closure(g, K)}
                           \ {NoSymbol}} : K \in todo} \ (done \cup todo))

RECURSIVE Enumerate(_)
Enumerate(S) ==
  IF S = {} THEN << >>
  ELSE <<CHOOSE y \in S : TRUE>> \o Enumerate(S \ {CHOOSE y \in S : TRUE})

LRStates(g) ==
  <<StartState>> \o Enumerate(LR0Items(g, {}, {StartState}) \ {StartState})

StateNumber(states, K) == (CHOOSE s \in 1..Len(states) : states[s] = K) - 1

\* The entry with the state a shift goes to filled in.
Numbered(g, states, K, a, e) ==
  IF e.act = "shift" THEN [e EXCEPT !.p = StateNumber(states, Goto(g, K, a))] ELSE e

ActionTable(g, states) ==
  [s \in 0..(Len(states) - 1) |->
     [a \in ActionKeys(g, Closure(g, states[s + 1])) |->
        Numbered(g, states, states[s + 1], a, ParserAction(g, states[s + 1], a))]]

GotoTable(g, states) ==
  [s \in 0..(Len(states) - 1) |->
     [n \in {NextSym(g.Productions, it) : it \in Closure(g, states[s + 1])}
              \cap g.Nonterminals |->
        StateNumber(states, Goto(g, states[s + 1], n))]]

\* LRParser.set_defaulted_states: a state whose only entry is a reduction.
DefaultedStates(action) ==
  [s \in {t \in DOMAIN action :
            /\ Cardinality(DOMAIN action[t]) = 1
            /\ \A a \in DOMAIN action[t] : action[t][a].act = "reduce"} |->
     action[s][CHOOSE a \in DOMAIN action[s] : TRUE]]

Tables(g, states) ==
  [productions |-> [p \in DOMAIN g.Productions |->
                      [name |-> g.Productions[p].name,
                       len  |-> Len(g.Productions[p].prod),
                       func |-> g.Productions[p].func]],
   action      |-> ActionTable(g, states),
   goto        |-> GotoTable(g, states)]

WithDefaultedStates(t) == [defaulted_states |-> DefaultedStates(t.action)] @@ t

\* The LRParser object that yacc.yacc returns.
LRParser == WithDefaultedStates(Tables(Grammar, LRStates(Grammar)))

(***************************************************************************)
(* Semantic values.  Python's None and the AST nodes are records tagged    *)
(* with the node's class name; Python tuples are sequences.  In the p_     *)
(* operators parse[i] is the grammar symbol at position i of the           *)
(* production (parse.slice[i]), parse[i].value its value.                  *)
(***************************************************************************)
None == [node |-> "None"]

p_program(parse) == [node |-> "Program", classes |-> parse[1].value]

p_class_list(parse) ==
  IF Len(parse) + 1 = 3 THEN <<parse[1].value>>
  ELSE Append(parse[1].value, parse[2].value)

\* p_class leaving the parent of the class unset
p_class_without_parent(parse) ==
  [node |-> "Class", name |-> parse[2].value, parent |-> "",
   features |-> parse[4].value]

p_class(parse) ==
  [node |-> "Class", name |-> parse[2].value, parent |-> "Object",
   features |-> parse[4].value]

p_class_inherits(parse) ==
  [node |-> "Class", name |-> parse[2].value, parent |-> parse[4].value,
   features |-> parse[6].value]

\* p_features_list_optional making a list of the value of empty
p_features_list_optional_wrapping(parse) ==
  IF parse[1].type = "empty" THEN <<parse[1].value>> ELSE parse[1].value

p_features_list_optional(parse) ==
  IF parse[1].type = "empty" THEN <<>> ELSE parse[1].value

\* p_features_list putting the new feature in front of the list
p_features_list_in_front(parse) ==
  IF Len(parse) + 1 = 3 THEN <<parse[1].value>>
  ELSE <<parse[2].value>> \o parse[1].value

p_features_list(parse) ==
  IF Len(parse) + 1 = 3 THEN <<parse[1].value>>
  ELSE Append(parse[1].value, parse[2].value)

p_feature_method(parse) ==
  [node |-> "Method", name |-> parse[1].value,
   formal_parameters |-> parse[3].value, return_type |-> parse[6].value,
   body |-> parse[8].value]

p_feature_method_no_formal_paramters(parse) ==
  [node |-> "Method", name |-> parse[1].value, formal_parameters |-> <<>>,
   return_type |-> parse[5].value, body |-> parse[7].value]

p_feature_attribute_initialized(parse) ==
  [node |-> "Attribute", name |-> parse[1].value,
   attribute_type |-> parse[3].value, expression |-> parse[5].value]

p_feature_attribute(parse) ==
  [node |-> "Attribute", name |-> parse[1].value,
   attribute_type |-> parse[3].value, expression |-> None]

p_formal_paramters_list(parse) ==
  IF Len(parse) + 1 = 2 THEN <<parse[1].value>>
  ELSE Append(parse[1].value, parse[3].value)

p_formal_paramter(parse) ==
  [node |-> "FormalParameter", name |-> parse[1].value,
   parameter_type |-> parse[3].value]

p_expression_object_identifier(parse) ==
  [node |-> "Object", name |-> parse[1].value]

p_expression_integer_constant(parse) ==
  [node |-> "Integer", content |-> parse[1].value]

p_expression_boolean_constant(parse) ==
  [node |-> "Boolean", content |-> parse[1].value]

p_expression_string_constant(parse) ==
  [node |-> "String", content |-> parse[1].value]

p_expression_self(parse) == [node |-> "Self", name |-> "SELF"]

p_expression_block(parse) ==
  [node |-> "Block", expression_list |-> parse[2].value]

p_block_list(parse) ==
  IF Len(parse) + 1 = 3 THEN <<parse[1].value>>
  ELSE Append(parse[1].value, parse[2].value)

\* p_expression_assignment naming the target by the wrong symbol of the rule
p_expression_assignment_misnamed(parse) ==
  [node |-> "Assignment",
   instance |-> [node |-> "Object", name |-> parse[2].value],
   expression |-> parse[3].value]

p_expression_assignment(parse) ==
  [node |-> "Assignment",
   instance |-> [node |-> "Object", name |-> parse[1].value],
   expression |-> parse[3].value]

p_expression_dispatch(parse) ==
  [node |-> "DynamicDispatch", instance |-> parse[1].value,
   method |-> parse[3].value, arguments |-> parse[5].value]

p_arguments_list_optional(parse) ==
  IF parse[1].type = "empty" THEN <<>> ELSE parse[1].value

p_arguments_list(parse) ==
  IF Len(parse) + 1 = 2 THEN <<parse[1].value>>
  ELSE Append(parse[1].value, parse[3].value)

p_expression_static_dispatch(parse) ==
  [node |-> "StaticDispatch", instance |-> parse[1].value,
   dispatch_type |-> parse[3].value, method |-> parse[5].value,
   arguments |-> parse[7].value]

\* The implicit dispatch on the object named self rather than on Self
p_expression_self_dispatch_on_identifier(parse) ==
  [node |-> "DynamicDispatch", instance |-> [node |-> "Object", name |-> "self"],
   method |-> parse[1].value, arguments |-> parse[3].value]

p_expression_self_dispatch(parse) ==
  [node |-> "DynamicDispatch", instance |-> [node |-> "Self", name |-> "SELF"],
   method |-> parse[1].value, arguments |-> parse[3].value]

BinaryNode(class_name, parse) ==
  [node |-> class_name, first |-> parse[1].value, second |-> parse[3].value]

p_expression_math_operations(parse) ==
  CASE parse[2].value = "+" -> BinaryNode("Addition", parse)
    [] parse[2].value = "-" -> BinaryNode("Subtraction", parse)
    [] parse[2].value = "*" -> BinaryNode("Multiplication", parse)
    [] parse[2].value = "/" -> BinaryNode("Division", parse)
    [] OTHER -> None

p_expression_math_comparisons(parse) ==
  CASE parse[2].value = "<" -> BinaryNode("LessThan", parse)
    [] parse[2].value = "<=" -> BinaryNode("LessThanOrEqual", parse)
    [] parse[2].value = "=" -> BinaryNode("Equal", parse)
    [] OTHER -> None

p_expression_with_parenthesis(parse) == parse[2].value

p_expression_if_conditional(parse) ==
  [node |-> "If", predicate |-> parse[2].value, then_body |-> parse[4].value,
   else_body |-> parse[6].value]

p_expression_while_loop(parse) ==
  [node |-> "WhileLoop", predicate |-> parse[2].value, body |-> parse[4].value]

p_expression_let(parse) == parse[1].value

p_expression_let_simple(parse) ==
  [node |-> "Let", instance |-> parse[2].value, return_type |-> parse[4].value,
   expression |-> None, body |-> parse[6].value]

p_expression_let_initialized(parse) ==
  [node |-> "Let", instance |-> parse[2].value, return_type |-> parse[4].value,
   expression |-> parse[6].value, body |-> parse[8].value]

p_inner_lets_simple(parse) ==
  [node |-> "Let", instance |-> parse[1].value, return_type |-> parse[3].value,
   expression |-> None, body |-> parse[5].value]

p_inner_lets_initialized(parse) ==
  [node |-> "Let", instance |-> parse[1].value, return_type |-> parse[3].value,
   expression |-> parse[5].value, body |-> parse[7].value]

p_expression_case(parse) ==
  [node |-> "Case", expression |-> parse[2].value, actions |-> parse[4].value]

\* The list of actions with each new action put in front
p_actions_list_in_front(parse) ==
  IF Len(parse) + 1 = 2 THEN <<parse[1].value>>
  ELSE <<parse[2].value>> \o parse[1].value

p_actions_list(parse) ==
  IF Len(parse) + 1 = 2 THEN <<parse[1].value>>
  ELSE Append(parse[1].value, parse[2].value)

p_action_expression(parse) == <<parse[1].value, parse[3].value, parse[5].value>>

p_expression_new(parse) == [node |-> "NewObject", type |-> parse[2].value]

p_expression_isvoid(parse) == [node |-> "IsVoid", expression |-> parse[2].value]

p_expression_integer_complement(parse) ==
  [node |-> "IntegerComplement", integer_expression |-> parse[2].value]

p_expression_boolean_complement(parse) ==
  [node |-> "BooleanComplement", boolean_expression |-> parse[2].value]

p_empty(parse) == None

\* p.callable(pslice): the p_ function of production p applied to its slice.
Callable(f, parse) ==
      CASE f = "p_program" -> p_program(parse)
        [] f = "p_class_list" -> p_class_list(parse)
        [] f = "p_class" -> p_class(parse)
        [] f = "p_class_inherits" -> p_class_inherits(parse)
        [] f = "p_features_list_optional" -> p_features_list_optional(parse)
        [] f = "p_features_list" -> p_features_list(parse)
        [] f = "p_feature_method" -> p_feature_method(parse)
        [] f = "p_feature_method_no_formal_paramters" ->
             p_feature_method_no_formal_paramters(parse)
        [] f = "p_feature_attribute_initialized" ->
             p_feature_attribute_initialized(parse)
        [] f = "p_feature_attribute" -> p_feature_attribute(parse)
        [] f = "p_formal_paramters_list" -> p_formal_paramters_list(parse)
        [] f = "p_formal_paramter" -> p_formal_paramter(parse)
        [] f = "p_expression_object_identifier" ->
             p_expression_object_identifier(parse)
        [] f = "p_expression_integer_constant" ->
             p_expression_integer_constant(parse)
        [] f = "p_expression_boolean_constant" ->
             p_expression_boolean_constant(parse)
        [] f = "p_expression_string_constant" ->
             p_expression_string_constant(parse)
        [] f = "p_expression_self" -> p_expression_self(parse)
        [] f = "p_expression_block" -> p_expression_block(parse)
        [] f = "p_block_list" -> p_block_list(parse)
        [] f = "p_expression_assignment" -> p_expression_assignment(parse)
        [] f = "p_expression_dispatch" -> p_expression_dispatch(parse)
        [] f = "p_arguments_list_optional" -> p_arguments_list_optional(parse)
        [] f = "p_arguments_list" -> p_arguments_list(parse)
        [] f = "p_expression_static_dispatch" ->
             p_expression_static_dispatch(parse)
        [] f = "p_expression_self_dispatch" -> p_expression_self_dispatch(parse)
        [] f = "p_expression_math_operations" ->
             p_expression_math_operations(parse)
        [] f = "p_expression_math_comparisons" ->
             p_expression_math_comparisons(parse)
        [] f = "p_expression_with_parenthesis" ->
             p_expression_with_parenthesis(parse)
        [] f = "p_expression_if_conditional" ->
             p_expression_if_conditional(parse)
        [] f = "p_expression_while_loop" -> p_expression_while_loop(parse)
        [] f = "p_expression_let" -> p_expression_let(parse)
        [] f = "p_expression_let_simple" -> p_expression_let_simple(parse)
        [] f = "p_expression_let_initialized" ->
             p_expression_let_initialized(parse)
        [] f = "p_inner_lets_simple" -> p_inner_lets_simple(parse)
        [] f = "p_inner_lets_initialized" -> p_inner_lets_initialized(parse)
        [] f = "p_expression_case" -> p_expression_case(parse)
        [] f = "p_actions_list" -> p_actions_list(parse)
        [] f = "p_action_expression" -> p_action_expression(parse)
        [] f = "p_expression_new" -> p_expression_new(parse)
        [] f = "p_expression_isvoid" -> p_expression_isvoid(parse)
        [] f = "p_expression_integer_complement" ->
             p_expression_integer_complement(parse)
        [] f = "p_expression_boolean_complement" ->
             p_expression_boolean_complement(parse)
        [] f = "p_empty" -> p_empty(parse)

(***************************************************************************)
(* The token source.  A run parses one source text of a family: a fixed    *)
(* opening, a body drawn from the family, a fixed closing; the text may    *)
(* also stop early, after any token of the body or the closing.            *)
(***************************************************************************)
MaxBody == 5

MaxBindings == 3

MaxArguments == 2

MaxArms == 2

MaxClasses == 2

MaxElements == 3

MaxCalls == 2

MaxDeclared == 3

\* CoolPyLexer.reserved: the words that are keywords, and their token types.
reserved ==
  [class |-> "CLASS", inherits |-> "INHERITS", if |-> "IF", in |-> "IN",
   then |-> "THEN", else |-> "ELSE", fi |-> "FI", while |-> "WHILE",
   loop |-> "LOOP", pool |-> "POOL", let |-> "LET", case |-> "CASE",
   of |-> "OF", esac |-> "ESAC", new |-> "NEW", self |-> "SELF",
   isvoid |-> "ISVOID"]

\* The text of the tokens that have only one spelling (lexer rules t_...).
Literal(t) ==
  CASE t = "CLASS" -> "class"
    [] t = "INHERITS" -> "inherits"
    [] t = "IF" -> "if"
    [] t = "THEN" -> "then"
    [] t = "ELSE" -> "else"
    [] t = "FI" -> "fi"
    [] t = "WHILE" -> "while"
    [] t = "LOOP" -> "loop"
    [] t = "POOL" -> "pool"
    [] t = "LET" -> "let"
    [] t = "IN" -> "in"
    [] t = "CASE" -> "case"
    [] t = "OF" -> "of"
    [] t = "ESAC" -> "esac"
    [] t = "NEW" -> "new"
    [] t = "SELF" -> "self"
    [] t = "ISVOID" -> "isvoid"
    [] t = "NOT" -> "not"
    [] t = "LPAREN" -> "("
    [] t = "RPAREN" -> ")"
    [] t = "LBRACE" -> "{"
    [] t = "RBRACE" -> "}"
    [] t = "COLON" -> ":"
    [] t = "COMMA" -> ","
    [] t = "DOT" -> "."
    [] t = "SEMICOLON" -> ";"
    [] t = "AT" -> "@"
    [] t = "MULTIPLY" -> "*"
    [] t = "DIVIDE" -> "/"
    [] t = "PLUS" -> "+"
    [] t = "MINUS" -> "-"
    [] t = "INT_COMP" -> "~"
    [] t = "LT" -> "<"
    [] t = "EQ" -> "="
    [] t = "LTEQ" -> "<="
    [] t = "ASSIGN" -> "<-"
    [] t = "ACTION" -> "=>"

ExpressionFamilies ==
  {"arith", "compare", "assign", "let", "dispatch", "case", "block", "selfassign",
   "nestedlets", "letbody"}

Families == ExpressionFamilies \cup {"classes", "members", "terminators"}

\* class Main { main ( ) : Object {  <body>  } ; } ;
Opening(fam) ==
  IF fam \in ExpressionFamilies
  THEN << <<"CLASS", "class">>, <<"TYPE", "Main">>, <<"LBRACE", "{">>,
          <<"ID", "main">>, <<"LPAREN", "(">>, <<"RPAREN", ")">>,
          <<"COLON", ":">>, <<"TYPE", "Object">>, <<"LBRACE", "{">> >>
  ELSE << >>

Closing(fam) ==
  IF fam \in ExpressionFamilies
  THEN <<"RBRACE", "SEMICOLON", "RBRACE", "SEMICOLON">>
  ELSE << >>

Alphabet(fam) ==
  CASE fam = "arith" -> {"ID", "PLUS", "MINUS", "MULTIPLY", "DIVIDE"}
    [] fam = "compare" -> {"ID", "LT", "LTEQ", "EQ"}
    [] fam = "assign" -> {"ID", "ASSIGN", "PLUS"}
    [] fam = "selfassign" -> {"ID", "SELF", "ASSIGN"}
    [] OTHER -> {}

Cat(S, T) == {s \o t : s \in S, t \in T}

RECURSIVE Repeat(_, _, _)
\* n >= 1 elements of S separated by the sequences of Sep
Repeat(S, Sep, n) ==
  IF n = 1 THEN S ELSE Cat(Cat(Repeat(S, Sep, n - 1), Sep), S)

Binding == {<<"ID", "COLON", "TYPE">>, <<"ID", "COLON", "TYPE", "ASSIGN", "ID">>}

\* let <id> : <type> [ <- <expr> ], ..., <id> : <type> [ <- <expr> ] in <expr>
LetTexts ==
  UNION {Cat(Cat({<<"LET">>}, Repeat(Binding, {<<"COMMA">>}, n)), {<<"IN", "ID">>}) :
           n \in 1..MaxBindings}

\* <id> : <type> [ <- <expr> ] in <expr>, the right side of nested_lets, alone
\* or followed by what the rules of let_expression and nested_lets put after
\* a nested_lets; and the let of one binding.
NestedLetsTexts ==
  LET inner == Cat(Binding, {<<"IN", "ID">>})
      more  == Cat({<<"COMMA">>, <<"COMMA", "LET">>}, Binding)
  IN  inner \cup Cat(inner, more) \cup Cat({<<"LET">>}, inner)

\* let <id> : <type> [ <- <expr> ] in <expr> <op> <expr>
LetBodyTexts ==
  Cat(Cat({<<"LET">>}, Binding),
      Cat({<<"IN", "ID">>},
          {<<op, "ID">> : op \in {"PLUS", "MINUS", "MULTIPLY", "DIVIDE", "LT", "LTEQ", "EQ"}}))

ArgumentTexts ==
  {<< >>} \cup UNION {Repeat({<<"ID">>}, {<<"COMMA">>}, n) : n \in 1..MaxArguments}

\* m ( args )   and   self . m ( args )
DispatchTexts ==
  Cat({<<"ID", "LPAREN">>, <<"SELF", "DOT", "ID", "LPAREN">>},
      Cat(ArgumentTexts, {<<"RPAREN">>}))

\* self @ T . m ( args )
StaticDispatchTexts ==
  Cat({<<"SELF", "AT", "TYPE", "DOT", "ID", "LPAREN">>},
      Cat(ArgumentTexts, {<<"RPAREN">>}))

Arm == {<<"ID", "COLON", "TYPE", "ACTION", "ID", "SEMICOLON">>}

\* case <expr> of <id> : <type> => <expr> ; ... esac, also with no arm at all
CaseTexts ==
  Cat({<<"CASE", "ID", "OF">>},
      Cat({<< >>} \cup UNION {Repeat(Arm, {<< >>}, n) : n \in 1..MaxArms},
          {<<"ESAC">>}))

ClassText ==
  {<<"CLASS", "TYPE", "LBRACE", "RBRACE", "SEMICOLON">>,
   <<"CLASS", "TYPE", "INHERITS", "TYPE", "LBRACE", "RBRACE", "SEMICOLON">>}

ClassesTexts == UNION {Repeat(ClassText, {<< >>}, n) : n \in 1..MaxClasses}

\* { <expr> ; ... <expr> ; }
BlockTexts ==
  UNION {Cat({<<"LBRACE">>},
             Cat(Repeat({<<"ID", "SEMICOLON">>}, {<< >>}, n), {<<"RBRACE">>})) :
           n \in 1..MaxElements}

\* class <type> { <id> : <type> ; ... } ;   and
\* class <type> { <id> ( <id> : <type>, ... ) : <type> { <expr> } ; } ;
MembersTexts ==
  UNION {Cat({<<"CLASS", "TYPE", "LBRACE">>},
             Cat(Repeat({<<"ID", "COLON", "TYPE", "SEMICOLON">>}, {<< >>}, n),
                 {<<"RBRACE", "SEMICOLON">>}))
         \cup
         Cat({<<"CLASS", "TYPE", "LBRACE", "ID", "LPAREN">>},
             Cat(Repeat({<<"ID", "COLON", "TYPE">>}, {<<"COMMA">>}, n),
                 {<<"RPAREN", "COLON", "TYPE", "LBRACE", "ID", "RBRACE", "SEMICOLON",
                    "RBRACE", "SEMICOLON">>})) :
           n \in 1..MaxElements}

\* class <type> { <id> ( ) : <type> { { <expr> ; ... <expr> ; } } ; } ;
MethodBlockTexts ==
  Cat({<<"CLASS", "TYPE", "LBRACE", "ID", "LPAREN", "RPAREN", "COLON", "TYPE", "LBRACE">>},
      Cat(BlockTexts, {<<"RBRACE", "SEMICOLON", "RBRACE", "SEMICOLON">>}))

\* The programs whose classes, features and block expressions each have
\* their terminator.
TerminatedTexts == ClassesTexts \cup MembersTexts \cup MethodBlockTexts

\* The texts of S with one of their semicolons left out.
WithoutATerminator(S) ==
  UNION {{SubSeq(s, 1, i - 1) \o SubSeq(s, i + 1, Len(s)) :
            i \in {j \in 1..Len(s) : s[j] = "SEMICOLON"}} : s \in S}

\* class <type> { <id> ( ) : <type> { { } } ; } ;
EmptyBlockText ==
  <<"CLASS", "TYPE", "LBRACE", "ID", "LPAREN", "RPAREN", "COLON", "TYPE",
    "LBRACE", "LBRACE", "RBRACE", "RBRACE", "SEMICOLON", "RBRACE", "SEMICOLON">>

\* A text, or a text with one token left out.
Variants(S) ==
  S \cup UNION {{SubSeq(s, 1, i - 1) \o SubSeq(s, i + 1, Len(s)) : i \in 1..Len(s)} :
                  s \in S}

Prefixes(S) == UNION {{SubSeq(s, 1, i) : i \in 0..Len(s)} : s \in S}

Texts ==
  [fam \in Families |->
     CASE fam = "let" -> Variants(LetTexts)
       [] fam = "nestedlets" -> NestedLetsTexts
       [] fam = "letbody" -> Variants(LetBodyTexts)
       [] fam = "dispatch" -> Variants(DispatchTexts \cup StaticDispatchTexts)
       [] fam = "case" -> Variants(CaseTexts)
       [] fam = "classes" -> Variants(ClassesTexts)
       [] fam = "block" -> BlockTexts
       [] fam = "members" -> MembersTexts
       [] fam = "terminators" ->
            TerminatedTexts \cup WithoutATerminator(TerminatedTexts) \cup {EmptyBlockText}
       [] OTHER -> {}]

TextPrefixes == [fam \in Families |-> Prefixes(Texts[fam])]

\* The token types that may come next in a body that reads b so far.
BodyNext(fam, b) ==
  IF Alphabet(fam) # {}
  THEN IF Len(b) < MaxBody THEN Alphabet(fam) ELSE {}
  ELSE {p[Len(p)] : p \in {q \in TextPrefixes[fam] :
                             Len(q) = Len(b) + 1 /\ SubSeq(q, 1, Len(b)) = b}}

BodyEnds(fam, b) == Alphabet(fam) # {} \/ b \in Texts[fam]

ClassNames == {"A", "B"}

\* The spellings of a token of type t at position k of the text: the k-th
\* token, if an identifier, is spelled xk, so that no two are alike.
Spellings(fam, t, k) ==
  CASE t = "ID" -> {"x" \o ToString(k)}
    [] t = "TYPE" -> IF fam = "classes" THEN ClassNames ELSE {"T" \o ToString(k)}
    [] t = "INTEGER" -> {ToString(k)}
    [] OTHER -> {Literal(t)}

(***************************************************************************)
(* State.                                                                  *)
(***************************************************************************)
VARIABLES
  family,       \* the family the source text is drawn from
  parser,       \* CoolPyParser.parser, the LRParser built by build()
  tokens,       \* the tokens the lexer has returned so far
  closing,      \* how many tokens of the closing have been returned
  lookahead,    \* the parser's lookahead token
  statestack,   \* LRParser.statestack
  symstack,     \* LRParser.symstack
  errorok,      \* LRParser.errorok
  error_list,   \* CoolPyParser.error_list
  stdout,       \* what has been printed
  pc,           \* where the front end is
  result,       \* what parse() returned
  calls,        \* how many times parse() has been called on the parser
  program_ast,        \* PyCoolSemanticAnalyser._program_ast
  classes_map,        \* PyCoolSemanticAnalyser._classes_map
  inheritance_graph,  \* PyCoolSemanticAnalyser._inheritance_graph
  semantic_errors,    \* the diagnostics of the analyser's passes
  lexer               \* CoolPyLexer.lexer, the Lexer built by build()

\* The state of the semantic analyser.
analyser == <<program_ast, classes_map, inheritance_graph, semantic_errors>>

vars ==
  <<family, parser, tokens, closing, lookahead, statestack, symstack, errorok,
    error_list, stdout, pc, result, calls, analyser, lexer>>

NoToken == [type |-> "none"]

EndOfInput == [type |-> "$end"]

Token(t, v, k) == [type |-> t, value |-> v, lineno |-> 1, lexpos |-> k]

TypesOf(s) == [i \in 1..Len(s) |-> s[i].type]

\* The body of the text: what follows the opening, the closing left out.
Body == TypesOf(SubSeq(tokens, Len(Opening(family)) + 1, Len(tokens) - closing))

\* What the lexer may return next.
SourceNext ==
  LET n == Len(tokens)
      k == n + 1
      o == Opening(family)
      c == Closing(family)
      close == IF closing < Len(c)
               THEN {Token(c[closing + 1], Literal(c[closing + 1]), k)}
               ELSE {EndOfInput}
  IN  IF n < Len(o) THEN {Token(o[k][1], o[k][2], k)}
      ELSE IF closing > 0 THEN close \cup {EndOfInput}
      ELSE {Token(t, v, k) : <<t, v>> \in
              UNION {{<<t2, v2>> : v2 \in Spellings(family, t2, k - Len(o))} :
                       t2 \in BodyNext(family, Body)}}
           \cup (IF BodyEnds(family, Body) THEN close ELSE {})
           \cup {EndOfInput}

ParseInit ==
  /\ parser = LRParser
  /\ tokens = << >>
  /\ closing = 0
  /\ lookahead = NoToken
  /\ statestack = <<0>>
  /\ symstack = <<[type |-> "$end", value |-> None]>>
  /\ errorok = TRUE
  /\ error_list = << >>
  /\ stdout = << >>
  /\ pc = "parsing"
  /\ result = None
  /\ calls = 1
  /\ program_ast = None
  /\ classes_map = << >>
  /\ inheritance_graph = << >>
  /\ semantic_errors = << >>
  /\ lexer = None

Init == family \in Families /\ ParseInit

State == statestack[Len(statestack)]

\* What an iteration of the loop does.  In a defaulted state it reduces
\* without a lookahead; elsewhere it fetches the token it lacks and acts on
\* actions[state].get(ltype), no entry being an error.
Entry ==
  IF State \in DOMAIN parser.defaulted_states THEN parser.defaulted_states[State]
  ELSE IF lookahead.type = "none" THEN [act |-> "fetch", p |-> 0]
  ELSE IF lookahead.type \in DOMAIN parser.action[State]
  THEN parser.action[State][lookahead.type]
  ELSE [act |-> "error", p |-> 0]

(***************************************************************************)
(* The parse loop of LRParser, one action per kind of iteration.           *)
(***************************************************************************)
\* lookahead = get_token(): CoolPyLexer.token()
GetToken ==
  /\ pc = "parsing"
  /\ Entry.act = "fetch"
  /\ \E t \in SourceNext :
       /\ lookahead' = t
       /\ tokens' = IF t.type = "$end" THEN tokens ELSE Append(tokens, t)
       /\ closing' = IF t.type # "$end" /\ Len(tokens) >= Len(Opening(family))
                        /\ (closing > 0 \/ t.type \notin BodyNext(family, Body))
                     THEN closing + 1 ELSE closing
  /\ UNCHANGED <<family, parser, statestack, symstack, errorok, error_list, stdout, pc,
                 result, calls, analyser, lexer>>

Shift ==
  /\ pc = "parsing"
  /\ Entry.act = "shift"
  /\ statestack' = Append(statestack, Entry.p)
  /\ symstack' = Append(symstack, lookahead)
  /\ lookahead' = NoToken
  /\ UNCHANGED <<family, parser, tokens, closing, errorok, error_list, stdout, pc, result,
                 calls, analyser, lexer>>

Reduce ==
  /\ pc = "parsing"
  /\ LET e     == Entry
         p     == parser.productions[e.p]
         keep  == Len(symstack) - p.len
         parse == SubSeq(symstack, keep + 1, Len(symstack))
         below == SubSeq(statestack, 1, keep)
     IN  /\ e.act = "reduce"
         /\ symstack' = Append(SubSeq(symstack, 1, keep),
                               [type |-> p.name, value |-> Callable(p.func, parse)])
         /\ statestack' = Append(below, parser.goto[below[Len(below)]][p.name])
  /\ UNCHANGED <<family, parser, tokens, closing, lookahead, errorok, error_list, stdout,
                 pc, result, calls, analyser, lexer>>

Accept ==
  /\ pc = "parsing"
  /\ Entry.act = "accept"
  /\ result' = symstack[Len(symstack)].value
  /\ pc' = "returned"
  /\ UNCHANGED <<family, parser, tokens, closing, lookahead, statestack, symstack, errorok,
                 error_list, stdout, calls, analyser, lexer>>

\* The text of p_error's diagnostic, by the four values it interpolates.
Diagnostic(token) ==
  [lineno |-> token.lineno, lexpos |-> token.lexpos, value |-> token.value,
   type |-> token.type]

\* The handler unwinding the parser: the diagnostic is recorded and the
\* stacks are emptied.
SyntaxErrorUnwinding ==
  /\ pc = "parsing"
  /\ Entry.act = "error"
  /\ lookahead.type # "$end"
  /\ error_list' = Append(error_list, Diagnostic(lookahead))
  /\ errorok' = TRUE
  /\ lookahead' = NoToken
  /\ statestack' = <<0>>
  /\ symstack' = <<[type |-> "$end", value |-> None]>>
  /\ UNCHANGED <<family, parser, tokens, closing, stdout, pc, result, calls, analyser, lexer>>

\* The handler failing fast: the diagnostic is recorded and the parse is over.
SyntaxErrorFailFast ==
  /\ pc = "parsing"
  /\ Entry.act = "error"
  /\ lookahead.type # "$end"
  /\ error_list' = Append(error_list, Diagnostic(lookahead))
  /\ errorok' = FALSE
  /\ result' = None
  /\ pc' = "returned"
  /\ UNCHANGED <<family, parser, tokens, closing, lookahead, statestack, symstack,
                 stdout, calls, analyser, lexer>>

\* The handler leaving the offending token as the lookahead
SyntaxErrorKeepingToken ==
  /\ pc = "parsing"
  /\ Entry.act = "error"
  /\ lookahead.type # "$end"
  /\ error_list' = Append(error_list, Diagnostic(lookahead))
  /\ errorok' = TRUE
  /\ UNCHANGED <<family, parser, tokens, closing, lookahead, statestack, symstack, stdout,
                 pc, result, calls, analyser, lexer>>

\* No entry for a real token: p_error(token) records it and calls errok(), and
\* the loop goes on with the token p_error returned, which is none.
SyntaxError ==
  /\ pc = "parsing"
  /\ Entry.act = "error"
  /\ lookahead.type # "$end"
  /\ error_list' = Append(error_list, Diagnostic(lookahead))
  /\ errorok' = TRUE
  /\ lookahead' = NoToken
  /\ UNCHANGED <<family, parser, tokens, closing, statestack, symstack, stdout, pc, result,
                 calls, analyser, lexer>>

\* p_error(None) saying nothing at the end of input
EndOfInputErrorSilent ==
  /\ pc = "parsing"
  /\ Entry.act = "error"
  /\ lookahead.type = "$end"
  /\ errorok' = FALSE
  /\ result' = None
  /\ pc' = "returned"
  /\ UNCHANGED <<family, parser, tokens, closing, lookahead, statestack, symstack,
                 error_list, stdout, calls, analyser, lexer>>

\* No entry for the end of input: p_error(None) prints, errorok stays false
\* and the loop gives up; parse() returns None.
EndOfInputError ==
  /\ pc = "parsing"
  /\ Entry.act = "error"
  /\ lookahead.type = "$end"
  /\ stdout' = Append(stdout, "Error! Unexpected end of input!")
  /\ errorok' = FALSE
  /\ result' = None
  /\ pc' = "returned"
  /\ UNCHANGED <<family, parser, tokens, closing, lookahead, statestack, symstack,
                 error_list, calls, analyser, lexer>>

\* CoolPyParser.parse called once more on the same parser, with a new text:
\* yacc's parse() starts again from an empty stack, and nothing touches
\* error_list, which belongs to the CoolPyParser.
Parse ==
  /\ pc = "returned"
  /\ calls < MaxCalls
  /\ calls' = calls + 1
  /\ tokens' = << >>
  /\ closing' = 0
  /\ lookahead' = NoToken
  /\ statestack' = <<0>>
  /\ symstack' = <<[type |-> "$end", value |-> None]>>
  /\ result' = None
  /\ pc' = "parsing"
  /\ UNCHANGED <<family, parser, errorok, error_list, stdout, analyser, lexer>>

(***************************************************************************)
(* The lexer.  The text is a sequence of characters.  An iteration of the  *)
(* loop of token() skips an ignored character, or takes the first rule of  *)
(* the current state that matches at lexpos, in the order lex gives the    *)
(* rules: the functions in the order of the file, then the strings by      *)
(* decreasing length of their expressions.  Positions count from 1.        *)
(***************************************************************************)
MaxMarkers == 5

MaxText == 5

\* The character classes of the expressions of the rules.
InClass(c, class) ==
  LET digits == {"0", "1", "2", "3", "4", "5", "6", "7", "8", "9"}
      upper  == {"A", "B", "C", "D", "E", "F", "G", "H", "I", "J", "K", "L", "M",
                 "N", "O", "P", "Q", "R", "S", "T", "U", "V", "W", "X", "Y", "Z"}
      lower  == {"a", "b", "c", "d", "e", "f", "g", "h", "i", "j", "k", "l", "m",
                 "n", "o", "p", "q", "r", "s", "t", "u", "v", "w", "x", "y", "z"}
  IN  CASE class = "0-9" -> c \in digits
        [] class = "A-Z" -> c \in upper
        [] class = "a-z" -> c \in lower
        [] class = "A-Za-z0-9_" -> c \in upper \cup lower \cup digits \cup {"_"}
        [] class = "^\"" -> c # "\""
        [] class = "^\\n" -> c # "\n"
        [] class = "\\n" -> c = "\n"

RECURSIVE Run(_, _, _)
\* class*: how many characters of the class follow from pos on.
Run(text, pos, class) ==
  IF pos > Len(text) \/ ~InClass(text[pos], class) THEN 0
  ELSE 1 + Run(text, pos + 1, class)

\* The strings of the rules that are strings, t_LPAREN to t_ACTION.
simple ==
  [t_LPAREN |-> [type |-> "LPAREN", regex |-> <<"(">>],
   t_RPAREN |-> [type |-> "RPAREN", regex |-> <<")">>],
   t_LBRACE |-> [type |-> "LBRACE", regex |-> <<"{">>],
   t_RBRACE |-> [type |-> "RBRACE", regex |-> <<"}">>],
   t_COLON |-> [type |-> "COLON", regex |-> <<":">>],
   t_COMMA |-> [type |-> "COMMA", regex |-> <<",">>],
   t_DOT |-> [type |-> "DOT", regex |-> <<".">>],
   t_SEMICOLON |-> [type |-> "SEMICOLON", regex |-> <<";">>],
   t_AT |-> [type |-> "AT", regex |-> <<"@">>],
   t_MULTIPLY |-> [type |-> "MULTIPLY", regex |-> <<"*">>],
   t_DIVIDE |-> [type |-> "DIVIDE", regex |-> <<"/">>],
   t_PLUS |-> [type |-> "PLUS", regex |-> <<"+">>],
   t_MINUS |-> [type |-> "MINUS", regex |-> <<"-">>],
   t_INT_COMP |-> [type |-> "INT_COMP", regex |-> <<"~">>],
   t_LT |-> [type |-> "LT", regex |-> <<"<">>],
   t_EQ |-> [type |-> "EQ", regex |-> <<"=">>],
   t_LTEQ |-> [type |-> "LTEQ", regex |-> <<"<", "=">>],
   t_ASSIGN |-> [type |-> "ASSIGN", regex |-> <<"<", "-">>],
   t_ACTION |-> [type |-> "ACTION", regex |-> <<"=", ">">>]]

\* The length of the match of a rule at pos, 0 when it does not match.
MatchLength(rule, text, pos) ==
  LET literally(s) ==
        IF pos + Len(s) - 1 <= Len(text) /\ SubSeq(text, pos, pos + Len(s) - 1) = s
        THEN Len(s) ELSE 0
      from(class) == IF InClass(text[pos], class)
                     THEN 1 + Run(text, pos + 1, "A-Za-z0-9_") ELSE 0
  IN  CASE rule = "t_INTEGER" -> Run(text, pos, "0-9")
        [] rule = "t_STRING" ->
             IF text[pos] = "\"" /\ pos + 1 + Run(text, pos + 1, "^\"") <= Len(text)
             THEN Run(text, pos + 1, "^\"") + 2 ELSE 0
        [] rule = "t_BOOLEAN" ->
             IF literally(<<"t", "r", "u", "e">>) > 0 THEN 4
             ELSE literally(<<"f", "a", "l", "s", "e">>)
        [] rule = "t_SINGLE_LINE_COMMENT" ->
             IF literally(<<"-", "-">>) > 0 THEN 2 + Run(text, pos + 2, "^\\n") ELSE 0
        [] rule = "t_NOT" ->
             IF pos + 2 <= Len(text) /\ text[pos] \in {"n", "N"}
                  /\ text[pos + 1] \in {"o", "O"} /\ text[pos + 2] \in {"t", "T"}
             THEN 3 ELSE 0
        [] rule = "t_TYPE" -> from("A-Z")
        [] rule = "t_ID" -> from("a-z")
        [] rule \in {"t_newline", "t_COMMENT_newline"} -> Run(text, pos, "\\n")
        [] rule \in {"t_start_comment", "t_COMMENT_startanother"} -> literally(<<"(", "*">>)
        [] rule = "t_COMMENT_end" -> literally(<<"*", ")">>)
        [] OTHER -> literally(simple[rule].regex)

\* The rules of each state, in the order in which token() tries them.
lexstatere ==
  [INITIAL |->
     <<"t_INTEGER", "t_STRING", "t_BOOLEAN", "t_SINGLE_LINE_COMMENT", "t_NOT", "t_TYPE",
       "t_ID", "t_newline", "t_start_comment",
       "t_LTEQ", "t_ASSIGN", "t_ACTION",
       "t_LPAREN", "t_RPAREN", "t_LBRACE", "t_RBRACE", "t_COLON", "t_COMMA", "t_DOT",
       "t_SEMICOLON", "t_AT", "t_MULTIPLY", "t_DIVIDE", "t_PLUS", "t_MINUS", "t_LT", "t_EQ",
       "t_INT_COMP">>,
   COMMENT |-> <<"t_COMMENT_startanother", "t_COMMENT_newline", "t_COMMENT_end">>]

RECURSIVE Word(_)
\* The string of a sequence of characters.
Word(chars) == IF chars = << >> THEN "" ELSE chars[1] \o Word(Tail(chars))

RECURSIVE IntegerValue(_)
\* int(), of a run of digits.
IntegerValue(chars) ==
  IF chars = << >> THEN 0
  ELSE 10 * IntegerValue(SubSeq(chars, 1, Len(chars) - 1))
       + (CHOOSE d \in 0..9 : ToString(d) = chars[Len(chars)])

\* t_ID: a word that is reserved, whatever its case, is the keyword; the
\* word is looked up as str.lower() gives it.
t_ID(chars) ==
  LET lower == <<"a", "b", "c", "d", "e", "f", "g", "h", "i", "j", "k", "l", "m",
                 "n", "o", "p", "q", "r", "s", "t", "u", "v", "w", "x", "y", "z">>
      upper == <<"A", "B", "C", "D", "E", "F", "G", "H", "I", "J", "K", "L", "M",
                 "N", "O", "P", "Q", "R", "S", "T", "U", "V", "W", "X", "Y", "Z">>
      word  == Word([i \in 1..Len(chars) |->
                       IF InClass(chars[i], "A-Z")
                       THEN lower[CHOOSE k \in 1..26 : upper[k] = chars[i]]
                       ELSE chars[i]])
  IN  IF word \in DOMAIN reserved THEN reserved[word] ELSE "ID"

\* t_start_comment: push_state('COMMENT'), and the count starts at 0.
t_start_comment(lx) ==
  [comment_count |-> 0] @@
  [lx EXCEPT !.lexstatestack = Append(@, lx.lexstate), !.lexstate = "COMMENT"]

t_COMMENT_startanother(lx) == [lx EXCEPT !.comment_count = @ + 1]

\* t_COMMENT_end leaving the comment at the first closing marker
t_COMMENT_end_unnested(lx) ==
  [lx EXCEPT !.lexstate = lx.lexstatestack[Len(lx.lexstatestack)],
             !.lexstatestack = SubSeq(@, 1, Len(@) - 1)]

\* t_COMMENT_end: pop_state() when the count is 0, else one less.
t_COMMENT_end(lx) ==
  IF lx.comment_count = 0
  THEN [lx EXCEPT !.lexstate = lx.lexstatestack[Len(lx.lexstatestack)],
                  !.lexstatestack = SubSeq(@, 1, Len(@) - 1)]
  ELSE [lx EXCEPT !.comment_count = @ - 1]

\* The function of a rule called on its match of n characters: the lexer it
\* leaves, the token it returns if any, and what it prints.
Rule(rule, lx, n) ==
  LET chars == SubSeq(lx.lexdata, lx.lexpos, lx.lexpos + n - 1)
      after == [lx EXCEPT !.lexpos = @ + n]
      returns(to, t, v) ==
        [lexer |-> to,
         token |-> [type |-> t, value |-> v, lineno |-> lx.lineno, lexpos |-> lx.lexpos],
         printed |-> << >>]
      nothing(to) == [lexer |-> to, token |-> NoToken, printed |-> << >>]
  IN  CASE rule = "t_INTEGER" -> returns(after, "INTEGER", IntegerValue(chars))
        [] rule = "t_STRING" -> returns(after, "STRING", Word(SubSeq(chars, 2, n - 1)))
        [] rule = "t_BOOLEAN" -> returns(after, "BOOLEAN", Word(chars) = "true")
        [] rule = "t_SINGLE_LINE_COMMENT" -> nothing(after)
        [] rule = "t_NOT" -> returns(after, "NOT", Word(chars))
        [] rule = "t_TYPE" -> returns(after, "TYPE", Word(chars))
        [] rule = "t_ID" -> returns(after, t_ID(chars), Word(chars))
        [] rule \in {"t_newline", "t_COMMENT_newline"} ->
             nothing([after EXCEPT !.lineno = @ + n])
        [] rule = "t_start_comment" -> nothing(t_start_comment(after))
        [] rule = "t_COMMENT_startanother" -> nothing(t_COMMENT_startanother(after))
        [] rule = "t_COMMENT_end" -> nothing(t_COMMENT_end(after))
        [] OTHER -> returns(after, simple[rule].type, Word(chars))

\* One iteration of the loop of token(): an ignored character is skipped;
\* else the first rule that matches is called; when none matches, t_error
\* prints and skips a character, and t_COMMENT_error only skips it.
Iteration(lx) ==
  LET lexignore == [INITIAL |-> {" ", "\t"}, COMMENT |-> {}]
      rules == lexstatere[lx.lexstate]
      hits  == {i \in 1..Len(rules) : MatchLength(rules[i], lx.lexdata, lx.lexpos) > 0}
      first == CHOOSE i \in hits : \A j \in hits : i <= j
  IN  IF lx.lexdata[lx.lexpos] \in lexignore[lx.lexstate]
      THEN [lexer |-> [lx EXCEPT !.lexpos = @ + 1], token |-> NoToken, printed |-> << >>]
      ELSE IF hits # {}
      THEN Rule(rules[first], lx, MatchLength(rules[first], lx.lexdata, lx.lexpos))
      ELSE [lexer |-> [lx EXCEPT !.lexpos = @ + 1], token |-> NoToken,
            printed |-> IF lx.lexstate = "INITIAL"
                        THEN <<"Illegal character! " \o lx.lexdata[lx.lexpos]>>
                        ELSE << >>]

RECURSIVE Flat(_)
\* The pieces of a text, one after the other.
Flat(pieces) == IF pieces = << >> THEN << >> ELSE pieces[1] \o Flat(Tail(pieces))

\* CoolPyLexer.input(source_code): the lexer at the start of the text.
input(source_code) ==
  [lexdata |-> source_code, lexpos |-> 1, lexstate |-> "INITIAL",
   lexstatestack |-> << >>, lineno |-> 1]

\* token(), an iteration of its loop: the tokens returned are kept in tokens.
LexToken ==
  /\ pc = "lexing"
  /\ lexer.lexpos <= Len(lexer.lexdata)
  /\ lexer' = Iteration(lexer).lexer
  /\ tokens' = IF Iteration(lexer).token.type = "none" THEN tokens
               ELSE Append(tokens, Iteration(lexer).token)
  /\ stdout' = stdout \o Iteration(lexer).printed
  /\ UNCHANGED <<family, parser, closing, lookahead, statestack, symstack, errorok,
                 error_list, pc, result, calls, analyser>>

\* token() at the end of the text: it returns None.
LexEnd ==
  /\ pc = "lexing"
  /\ lexer.lexpos > Len(lexer.lexdata)
  /\ pc' = "lexed"
  /\ UNCHANGED <<family, parser, tokens, closing, lookahead, statestack, symstack, errorok,
                 error_list, stdout, result, calls, analyser, lexer>>

NextLexer == LexToken \/ LexEnd

\* The lexer about to read a text; no parser has been built.
LexerInit ==
  /\ parser = None
  /\ tokens = << >>
  /\ closing = 0
  /\ lookahead = NoToken
  /\ statestack = <<0>>
  /\ symstack = <<[type |-> "$end", value |-> None]>>
  /\ errorok = TRUE
  /\ error_list = << >>
  /\ stdout = << >>
  /\ pc = "lexing"
  /\ result = None
  /\ calls = 1
  /\ program_ast = None
  /\ classes_map = << >>
  /\ inheritance_graph = << >>
  /\ semantic_errors = << >>

\* Texts of up to MaxMarkers pieces, each a marker of a comment, a letter or
\* a star.
InitComments ==
  /\ family = "comments"
  /\ LexerInit
  /\ \E n \in 0..MaxMarkers :
       \E pieces \in [1..n -> {<<"(", "*">>, <<"*", ")">>, <<"x">>, <<"*">>}] :
         lexer = input(Flat(pieces))

SpecComments == InitComments /\ [][NextLexer]_vars

\* Texts of up to MaxText characters of words and blanks.
InitWords ==
  /\ family = "words"
  /\ LexerInit
  /\ \E n \in 0..MaxText :
       \E text \in [1..n -> {"n", "o", "t", "r", "u", "e", "N", " "}] :
         lexer = input(text)

SpecWords == InitWords /\ [][NextLexer]_vars

(***************************************************************************)
(* The semantic analyser.  transform checks its argument and runs the      *)
(* passes in the order below.  The passes themselves are defined nowhere   *)
(* in the sources; they follow the description of the class hierarchy      *)
(* builder: each adds its diagnostics and leaves the rest to the next.     *)
(***************************************************************************)
OBJECT_CLASS == "Object"

BuiltinClasses == {"Object", "IO", "Int", "Bool", "String"}

\* The classes nothing may inherit from.
SealedClasses == {"Int", "Bool", "String"}

ClassNamesOf(program) ==
  {program.classes[i].name : i \in 1..Len(program.classes)}

\* A class whose parent names no class at all is given the root as parent.
DefaultUndefinedParentClassesToObject(program) ==
  [program EXCEPT !.classes =
     [i \in 1..Len(program.classes) |->
        IF program.classes[i].parent \in ClassNamesOf(program) \cup BuiltinClasses
        THEN program.classes[i]
        ELSE [program.classes[i] EXCEPT !.parent = OBJECT_CLASS]]]

\* The record of a class of the language itself; the root has no parent.
BuiltinClass(n) ==
  [node |-> "Class", name |-> n,
   parent |-> IF n = OBJECT_CLASS THEN "" ELSE OBJECT_CLASS, features |-> << >>]

\* The declarations among the picked places of the program, in its order.
Declarations(program, picked) ==
  SelectSeq([i \in 1..Len(program.classes) |-> i], LAMBDA i : i \in picked)

\* The declaration of a name that another declaration came before.
Redefined(program, i) ==
  \E j \in 1..(i - 1) : program.classes[j].name = program.classes[i].name

\* _init_collections letting a later declaration of a name take the place of
\* the earlier one in the table
InitCollectionsOverwriting(program) ==
  LET again == Declarations(program, {i \in 1..Len(program.classes) : Redefined(program, i)})
  IN  [program_ast |-> program,
       classes_map |->
         [n \in ClassNamesOf(program) \cup BuiltinClasses |->
            IF n \in ClassNamesOf(program)
            THEN program.classes[CHOOSE i \in 1..Len(program.classes) :
                                   /\ program.classes[i].name = n
                                   /\ \A j \in (i + 1)..Len(program.classes) :
                                        program.classes[j].name # n]
            ELSE BuiltinClass(n)],
       errors |->
         [k \in 1..Len(again) |->
            [error |-> "redefinition", names |-> <<program.classes[again[k]].name>>]]]

\* _init_collections: the class table, with the classes of the language and
\* the first declaration of each name of the program; a later declaration of
\* a name is an error and is left out.
InitCollections(program) ==
  LET again == Declarations(program, {i \in 1..Len(program.classes) : Redefined(program, i)})
  IN  [program_ast |-> program,
       classes_map |->
         [n \in ClassNamesOf(program) \cup BuiltinClasses |->
            IF n \in ClassNamesOf(program)
            THEN program.classes[CHOOSE i \in 1..Len(program.classes) :
                                   /\ program.classes[i].name = n
                                   /\ ~Redefined(program, i)]
            ELSE BuiltinClass(n)],
       errors |->
         [k \in 1..Len(again) |->
            [error |-> "redefinition", names |-> <<program.classes[again[k]].name>>]]]

\* _default_undefined_parent_classes_to_object, on the program and the table.
DefaultUndefinedParents(a) ==
  [a EXCEPT
     !.program_ast = DefaultUndefinedParentClassesToObject(@),
     !.classes_map =
       [n \in DOMAIN @ |->
          IF n \in BuiltinClasses \/ @[n].parent \in DOMAIN @ THEN @[n]
          ELSE [@[n] EXCEPT !.parent = OBJECT_CLASS]]]

\* A class as the sealed-class guard leaves it.
Unsealed(class) ==
  IF class.parent \in SealedClasses /\ class.name \notin BuiltinClasses
  THEN [class EXCEPT !.parent = OBJECT_CLASS] ELSE class

\* _invalidate_inheritance_from_builtin_classes: a class declaring a parent
\* among Int, Bool and String is an error and inherits from the root instead.
InvalidateInheritanceFromBuiltinClasses(a) ==
  LET program == a.program_ast
      sealed  == Declarations(program,
                   {i \in 1..Len(program.classes) :
                      program.classes[i].parent \in SealedClasses})
  IN  [program_ast |->
         [program EXCEPT !.classes = [i \in DOMAIN @ |-> Unsealed(@[i])]],
       classes_map |-> [n \in DOMAIN a.classes_map |-> Unsealed(a.classes_map[n])],
       errors |->
         a.errors \o
         [k \in 1..Len(sealed) |->
            [error |-> "sealed",
             names |-> <<program.classes[sealed[k]].name,
                         program.classes[sealed[k]].parent>>]]]

RECURSIVE Walk(_, _, _)
\* The classes met walking up from class n, n first, for as long as the walk
\* meets a class of the table it has not met: path is what it has met.
Walk(table, n, path) ==
  IF n \notin DOMAIN table \/ \E i \in 1..Len(path) : path[i] = n THEN path
  ELSE Walk(table, table[n].parent, Append(path, n))

\* The walk from n comes back to n.
OnCycle(table, n) ==
  n \in DOMAIN table /\ table[n].parent \in DOMAIN table
    /\ LET path == Walk(table, table[n].parent, << >>)
       IN  \E i \in 1..Len(path) : path[i] = n

\* The walk from n ends at the root.
Rooted(table, n) ==
  LET path == Walk(table, n, << >>) IN path[Len(path)] = OBJECT_CLASS

\* _check_cyclic_inheritance_relations: every cycle is an error, reported once
\* as the walk from the first declared of its classes; a class whose walk
\* does not end at the root, being on a cycle or below one, is left out of
\* the table.
CheckCyclicInheritanceRelations(a) ==
  LET program == a.program_ast
      table   == a.classes_map
      first   == Declarations(program,
                   {i \in 1..Len(program.classes) :
                      /\ ~Redefined(program, i)
                      /\ OnCycle(table, program.classes[i].name)
                      /\ LET path == Walk(table, program.classes[i].name, << >>)
                         IN  \A j \in 1..(i - 1) :
                               \A k \in 1..Len(path) :
                                 path[k] # program.classes[j].name})
  IN  [a EXCEPT
         !.classes_map = [n \in {m \in DOMAIN table : Rooted(table, m)} |-> table[n]],
         !.errors =
           @ \o [k \in 1..Len(first) |->
                   [error |-> "cycle",
                    names |-> Walk(table, program.classes[first[k]].name, << >>)]]]

\* The parents of the classes of the table, each with the set of its children.
InheritanceGraph(table) ==
  [p \in {table[n].parent : n \in DOMAIN table} \ {""} |->
     {n \in DOMAIN table : table[n].parent = p}]

\* The classes of the ancestor chain of class A, from A itself to the root.
Ancestors(table, A) ==
  LET chain == Walk(table, A, << >>) IN {chain[i] : i \in 1..Len(chain)}

\* Conformance looking no further up than the parent
ConformsToParent(table, A, B) ==
  A = B \/ (A \in DOMAIN table /\ table[A].parent = B)

\* Conformance, A <= B: A is B, or B is met walking up the parent chain of A.
Conforms(table, A, B) == A = B \/ B \in Ancestors(table, A)

\* Join taking the farthest class the two chains share instead of the nearest
JoinFarthest(table, A, B) ==
  LET chain == Walk(table, A, << >>)
      above == Ancestors(table, B)
  IN  chain[CHOOSE i \in 1..Len(chain) :
              /\ chain[i] \in above
              /\ \A j \in (i + 1)..Len(chain) : chain[j] \notin above]

\* Join: the nearest class of the ancestor chain of A that is in that of B.
Join(table, A, B) ==
  LET chain == Walk(table, A, << >>)
      above == Ancestors(table, B)
  IN  chain[CHOOSE i \in 1..Len(chain) :
              /\ chain[i] \in above
              /\ \A j \in 1..(i - 1) : chain[j] \notin above]

\* A method as the flattened method set of a class holds it.
Signature(class_name, method) ==
  [name |-> method.name,
   formal_types |-> [i \in DOMAIN method.formal_parameters |->
                       method.formal_parameters[i].parameter_type],
   return_type |-> method.return_type,
   defining_class |-> class_name]

\* A method may take the place of an inherited one of its name: the same
\* formal-parameter types, one for one, and a return type that conforms.
MayOverride(table, own, inherited) ==
  /\ own.formal_types = inherited.formal_types
  /\ Conforms(table, own.return_type, inherited.return_type)

\* Merging that lets the method of the class replace the inherited one
\* whatever its signature
MergeMethodOverwriting(table, flat, class_name, method) ==
  LET own  == Signature(class_name, method)
      same == {j \in 1..Len(flat.methods) : flat.methods[j].name = own.name}
  IN  IF same = {} THEN [flat EXCEPT !.methods = Append(@, own)]
      ELSE [flat EXCEPT !.methods[CHOOSE j \in same : TRUE] = own]

\* One method of a class merged into what the class inherits: a new name is
\* added, a matching override replaces the inherited method, and any other
\* override is an error that leaves the inherited method as it was.
MergeMethod(table, flat, class_name, method) ==
  LET own  == Signature(class_name, method)
      same == {j \in 1..Len(flat.methods) : flat.methods[j].name = own.name}
  IN  IF same = {} THEN [flat EXCEPT !.methods = Append(@, own)]
      ELSE IF MayOverride(table, own, flat.methods[CHOOSE j \in same : TRUE])
      THEN [flat EXCEPT !.methods[CHOOSE j \in same : TRUE] = own]
      ELSE [flat EXCEPT !.errors =
              Append(@, [error |-> "override-mismatch",
                         names |-> <<class_name, own.name>>])]

RECURSIVE MergeClass(_, _, _, _)
\* The methods of a class, from the i-th feature on, merged in their order.
MergeClass(table, flat, n, i) ==
  IF i > Len(table[n].features) THEN flat
  ELSE MergeClass(table,
                  IF table[n].features[i].node = "Method"
                  THEN MergeMethod(table, flat, n, table[n].features[i])
                  ELSE flat,
                  n, i + 1)

RECURSIVE FlattenFrom(_, _, _, _)
\* The classes of an ancestor chain merged from its k-th class down to its
\* first; the chain has the class itself first and the root last.
FlattenFrom(table, chain, k, flat) ==
  IF k = 0 THEN flat
  ELSE FlattenFrom(table, chain, k - 1, MergeClass(table, flat, chain[k], 1))

\* Flattening of the methods of class n: its ancestor chain walked from the
\* root down to the class itself.
FlattenMethods(table, n) ==
  LET chain == Walk(table, n, << >>)
  IN  FlattenFrom(table, chain, Len(chain), [methods |-> << >>, errors |-> << >>])

\* transform without its call of the sealed-class guard
PassesWithoutGuard(program) ==
  CheckCyclicInheritanceRelations(
    DefaultUndefinedParents(InitCollections(program)))

\* transform without its call of the default-parent pass
PassesWithoutDefault(program) ==
  CheckCyclicInheritanceRelations(
    InvalidateInheritanceFromBuiltinClasses(InitCollections(program)))

\* transform without its call of the cycle check
PassesWithoutCycleCheck(program) ==
  InvalidateInheritanceFromBuiltinClasses(
    DefaultUndefinedParents(InitCollections(program)))

\* The calls transform makes on a Program, in its order.
Passes(program) ==
  CheckCyclicInheritanceRelations(
    InvalidateInheritanceFromBuiltinClasses(
      DefaultUndefinedParents(InitCollections(program))))

\* What transform may be given: what parse() returned, nothing, or something
\* other than a Program, here a Class.
TransformArguments ==
  {result, None} \cup (IF result.node = "Program" THEN {result.classes[1]} ELSE {})

\* transform keeping its argument before it has looked at it
TransformKeepingFirst(program) ==
  /\ pc \in {"returned", "transformed"}
  /\ IF program.node = "None"
     THEN /\ pc' = "ValueError"
          /\ program_ast' = program
          /\ UNCHANGED <<classes_map, inheritance_graph, semantic_errors>>
     ELSE IF program.node # "Program"
     THEN /\ pc' = "TypeError"
          /\ program_ast' = program
          /\ UNCHANGED <<classes_map, inheritance_graph, semantic_errors>>
     ELSE LET a == Passes(program)
          IN  /\ program_ast' = a.program_ast
              /\ classes_map' = a.classes_map
              /\ inheritance_graph' = InheritanceGraph(a.classes_map)
              /\ semantic_errors' = a.errors
              /\ pc' = "transformed"
  /\ UNCHANGED <<family, parser, tokens, closing, lookahead, statestack, symstack, errorok,
                 error_list, stdout, result, calls, lexer>>

\* PyCoolSemanticAnalyser.transform(program).
Transform(program) ==
  /\ pc \in {"returned", "transformed"}
  /\ IF program.node = "None"
     THEN pc' = "ValueError" /\ UNCHANGED analyser
     ELSE IF program.node # "Program"
     THEN pc' = "TypeError" /\ UNCHANGED analyser
     ELSE LET a == Passes(program)
          IN  /\ program_ast' = a.program_ast
              /\ classes_map' = a.classes_map
              /\ inheritance_graph' = InheritanceGraph(a.classes_map)
              /\ semantic_errors' = a.errors
              /\ pc' = "transformed"
  /\ UNCHANGED <<family, parser, tokens, closing, lookahead, statestack, symstack, errorok,
                 error_list, stdout, result, calls, lexer>>

Next ==
  \/ GetToken
  \/ Shift
  \/ Reduce
  \/ Accept
  \/ SyntaxError
  \/ EndOfInputError
  \/ \E program \in TransformArguments : Transform(program)

Spec == Init /\ [][Next]_vars

InitArith == family = "arith" /\ ParseInit

SpecArith == InitArith /\ [][Next]_vars

InitCompare == family = "compare" /\ ParseInit

SpecCompare == InitCompare /\ [][Next]_vars

InitAssign == family = "assign" /\ ParseInit

SpecAssign == InitAssign /\ [][Next]_vars

InitLet == family = "let" /\ ParseInit

SpecLet == InitLet /\ [][Next]_vars

InitDispatch == family = "dispatch" /\ ParseInit

SpecDispatch == InitDispatch /\ [][Next]_vars

InitCase == family = "case" /\ ParseInit

SpecCase == InitCase /\ [][Next]_vars

InitClasses == family = "classes" /\ ParseInit

SpecClasses == InitClasses /\ [][Next]_vars

\* The texts of operators and identifiers only.
InitOperators == family \in {"arith", "assign"} /\ ParseInit

SpecOperators == InitOperators /\ [][Next]_vars

\* Texts with lists that may be empty: class bodies and argument lists.
InitEmptyLists == family \in {"dispatch", "classes"} /\ ParseInit

SpecEmptyLists == InitEmptyLists /\ [][Next]_vars

\* Texts with a list of every kind the grammar has.
InitLists ==
  family \in {"classes", "members", "dispatch", "block", "case"} /\ ParseInit

SpecLists == InitLists /\ [][Next]_vars

\* The semantic analyser alone, given a program of up to MaxDeclared classes
\* without features, each named from DeclaredNames and inheriting from the
\* root, a declared name, a sealed class or a name nothing declares.  The
\* k-th class has one of the first k names: every other program is one of
\* these with its classes renamed.
DeclaredNames == <<"A", "B", "C">>

ParentNames == {"A", "B", "C", "Object", "Int", "Undeclared"}

Programs ==
  {[node |-> "Program", classes |-> c] :
     c \in UNION {{d \in [1..n -> [node : {"Class"}, name : {"A", "B", "C"},
                                     parent : ParentNames, features : {<< >>}]] :
                      \A k \in 1..n :
                        \E j \in 1..Len(DeclaredNames) :
                          j <= k /\ d[k].name = DeclaredNames[j]} :
                    n \in 1..MaxDeclared}}

\* A let whose body is a binary operation.
InitLetBody == family = "letbody" /\ ParseInit

SpecLetBody == InitLetBody /\ [][Next]_vars

\* The texts the rules of nested_lets are written for.
InitNestedLets == family = "nestedlets" /\ ParseInit

SpecNestedLets == InitNestedLets /\ [][Next]_vars

\* Assignments, to identifiers and to self.
InitSelfAssign == family = "selfassign" /\ ParseInit

SpecSelfAssign == InitSelfAssign /\ [][Next]_vars

\* The same, never stopping while there is a step to take: the parse loop is
\* sequential code that runs until it returns.
SpecSelfAssignFair == SpecSelfAssign /\ WF_vars(Next)

\* The texts that have their terminators, and those that lack one.
InitTerminators == family = "terminators" /\ ParseInit

SpecTerminators == InitTerminators /\ [][Next]_vars

\* No parser has been built: the program is handed to transform as it is.
InitHierarchy ==
  /\ family = "classes"
  /\ parser = None
  /\ tokens = << >>
  /\ closing = 0
  /\ lookahead = NoToken
  /\ statestack = <<0>>
  /\ symstack = <<[type |-> "$end", value |-> None]>>
  /\ errorok = TRUE
  /\ error_list = << >>
  /\ stdout = << >>
  /\ pc = "returned"
  /\ calls = 1
  /\ program_ast = None
  /\ classes_map = << >>
  /\ inheritance_graph = << >>
  /\ semantic_errors = << >>
  /\ lexer = None
  /\ result \in Programs

NextHierarchy == \E program \in TransformArguments : Transform(program)

SpecHierarchy == InitHierarchy /\ [][NextHierarchy]_vars

\* The names of the classes of a program whose classes declare methods.
MethodClassNames == <<"A", "B", "C", "D", "E">>

\* A class declares no method, or the method m without a formal parameter or
\* with one.
MethodLists ==
  {<< >>} \cup
  {<<[node |-> "Method", name |-> "m", formal_parameters |-> f,
      return_type |-> "Object", body |-> None]>> :
     f \in {<< >>, <<[node |-> "FormalParameter", name |-> "x",
                      parameter_type |-> "Int"]>>}}

\* The programs of n classes of different names, each inheriting from the
\* root or from a class of the program and declaring what MethodLists has.
MethodProgramsOf(n) ==
  {[node |-> "Program",
    classes |-> [k \in 1..n |->
                   [node |-> "Class", name |-> MethodClassNames[k],
                    parent |-> parents[k], features |-> methods[k]]]] :
     parents \in [1..n -> {OBJECT_CLASS} \cup {MethodClassNames[k] : k \in 1..n}],
     methods \in [1..n -> MethodLists]}

\* No parser has been built: a program with methods is handed to transform.
InitFlattening ==
  /\ family = "classes"
  /\ parser = None
  /\ tokens = << >>
  /\ closing = 0
  /\ lookahead = NoToken
  /\ statestack = <<0>>
  /\ symstack = <<[type |-> "$end", value |-> None]>>
  /\ errorok = TRUE
  /\ error_list = << >>
  /\ stdout = << >>
  /\ pc = "returned"
  /\ calls = 1
  /\ program_ast = None
  /\ classes_map = << >>
  /\ inheritance_graph = << >>
  /\ semantic_errors = << >>
  /\ lexer = None
  /\ \E n \in 1..MaxDeclared :
       n <= Len(MethodClassNames) /\ result \in MethodProgramsOf(n)

SpecFlattening == InitFlattening /\ [][NextHierarchy]_vars

\* The front end with parse() called up to MaxCalls times on one parser.
NextCalls == Next \/ Parse

SpecCalls == InitCase /\ [][NextCalls]_vars

(***************************************************************************)
(* Properties.                                                             *)
(***************************************************************************)
\* The position in the text of the k-th class keyword.
Declared(k) ==
  CHOOSE i \in 1..Len(tokens) :
    /\ tokens[i].type = "CLASS"
    /\ Cardinality({j \in 1..i : tokens[j].type = "CLASS"}) = k

Inherits(i) == i + 2 <= Len(tokens) /\ tokens[i + 2].type = "INHERITS"

\* C1: in a program parsed without a diagnostic, the Class node of a class
\* declared without an inherits clause has parent Object, and still has it
\* after the default-parent pass of the semantic analyser; the Class node of a
\* class declared with "inherits T" has parent T.
C1_DefaultParent ==
  (result.node = "Program" /\ error_list = << >>) =>
    \A k \in 1..Len(result.classes) :
      /\ result.classes[k].name = tokens[Declared(k) + 1].value
      /\ IF Inherits(Declared(k))
         THEN result.classes[k].parent = tokens[Declared(k) + 3].value
         ELSE /\ result.classes[k].parent = "Object"
              /\ pc = "transformed" => program_ast.classes[k].parent = "Object"

\* A program of two classes, one declared with and one without an inherits
\* clause, has gone through the parser and the analyser.
C1_Witness ==
  /\ pc = "transformed"
  /\ error_list = << >>
  /\ Len(result.classes) = 2
  /\ \E k \in 1..2 : Inherits(Declared(k))
  /\ \E k \in 1..2 : ~Inherits(Declared(k))

(***************************************************************************)
(* What the text says, for comparison with what the parser built.          *)
(***************************************************************************)
\* The i-th token of the body of the text.
BodyToken(i) == tokens[Len(Opening(family)) + i]

\* The text is a whole one: opening, body and closing.
Whole == closing = Len(Closing(family))

\* The expression the parser made the body of method main.
MethodBody == result.classes[1].features[1].body

\* The node of the identifier that is the i-th token of the body.
Operand(i) == [node |-> "Object", name |-> BodyToken(i).value]

Additive == {"PLUS", "MINUS"}

Multiplicative == {"MULTIPLY", "DIVIDE"}

Comparisons == {"LT", "LTEQ", "EQ"}

NodeOf(t) ==
  CASE t = "PLUS" -> "Addition"
    [] t = "MINUS" -> "Subtraction"
    [] t = "MULTIPLY" -> "Multiplication"
    [] t = "DIVIDE" -> "Division"
    [] t = "LT" -> "LessThan"
    [] t = "LTEQ" -> "LessThanOrEqual"
    [] t = "EQ" -> "Equal"

\* The node of the binary operator that is the i-th token of the body.
Binary(i, l, r) == [node |-> NodeOf(BodyToken(i).type), first |-> l, second |-> r]

\* The body reads  a op1 b op2 c  with op1 in Ops1 and op2 in Ops2.
TwoOperators(Ops1, Ops2) ==
  /\ Len(Body) = 5
  /\ Body[1] = "ID" /\ Body[3] = "ID" /\ Body[5] = "ID"
  /\ Body[2] \in Ops1
  /\ Body[4] \in Ops2

LeftNested == Binary(4, Binary(2, Operand(1), Operand(3)), Operand(5))

RightNested == Binary(2, Operand(1), Binary(4, Operand(3), Operand(5)))

\* C2 as stated: a + b * c parses to Multiplication(Addition(a, b), c).
C2_AdditionBindsTighter ==
  (result.node = "Program" /\ TwoOperators({"PLUS"}, {"MULTIPLY"})) =>
    MethodBody = LeftNested

\* C2: binding strength follows the precedence table read from lowest (first
\* entry) to highest (last entry), so * and / bind more tightly than + and -:
\* a + b * c parses to Addition(a, Multiplication(b, c)), and a * b + c to
\* Addition(Multiplication(a, b), c), likewise with - and /.
C2_Precedence ==
  result.node = "Program" =>
    /\ TwoOperators(Additive, Multiplicative) => MethodBody = RightNested
    /\ TwoOperators(Multiplicative, Additive) => MethodBody = LeftNested

\* a + b * c has been parsed, without a diagnostic.
C2_Witness ==
  /\ pc = "transformed"
  /\ error_list = << >>
  /\ TwoOperators({"PLUS"}, {"MULTIPLY"})
  /\ MethodBody.node = "Addition"

ComparisonNodes == {NodeOf(t) : t \in Comparisons}

\* C3: comparisons do not associate.  When the body reads a op1 b op2 c, both
\* operators comparisons, the error handler is called on op2, whose diagnostic
\* is the first one recorded, and the expression the parser builds is no
\* comparison of a comparison.
C3_NonAssociative ==
  TwoOperators(Comparisons, Comparisons) =>
    /\ error_list # << >>
    /\ error_list[1] = Diagnostic(BodyToken(4))
    /\ result.node = "Program" =>
         /\ MethodBody.node \in ComparisonNodes
         /\ MethodBody.first.node \notin ComparisonNodes
         /\ MethodBody.second.node \notin ComparisonNodes

\* a < b = c has gone through the parser, which recorded a diagnostic on =.
C3_Witness ==
  /\ pc = "transformed"
  /\ TwoOperators({"LT"}, {"EQ"})
  /\ error_list[1].type = "EQ"
  /\ MethodBody.node = "LessThan"

\* The body reads  a <- b <- c.
TwoAssignments ==
  /\ Len(Body) = 5
  /\ Body[1] = "ID" /\ Body[3] = "ID" /\ Body[5] = "ID"
  /\ Body[2] = "ASSIGN" /\ Body[4] = "ASSIGN"

Assignment(i, e) == [node |-> "Assignment", instance |-> Operand(i), expression |-> e]

\* C4: operators of one level group by the associativity of their row.  For
\* op1, op2 both of + and - or both of * and /, a op1 b op2 c parses to
\* op2(op1(a, b), c); a <- b <- c parses to Assignment(a, Assignment(b, c)).
C4_Associativity ==
  result.node = "Program" =>
    /\ TwoOperators(Additive, Additive) => MethodBody = LeftNested
    /\ TwoOperators(Multiplicative, Multiplicative) => MethodBody = LeftNested
    /\ TwoAssignments => MethodBody = Assignment(1, Assignment(3, Operand(5)))

\* a - b + c has been parsed, without a diagnostic.
C4_Witness ==
  /\ pc = "transformed"
  /\ error_list = << >>
  /\ TwoOperators({"MINUS"}, {"PLUS"})
  /\ MethodBody.node = "Addition"
  /\ MethodBody.first.node = "Subtraction"

\* The Let chain that the bindings of the body of the text denote, from the
\* binding whose identifier is the i-th token on.
RECURSIVE LetChain(_)
LetChain(i) ==
  LET init == Body[i + 3] = "ASSIGN"
      next == IF init THEN i + 5 ELSE i + 3
  IN  [node        |-> "Let",
       instance    |-> BodyToken(i).value,
       return_type |-> BodyToken(i + 2).value,
       expression  |-> IF init THEN Operand(i + 4) ELSE None,
       body        |-> IF Body[next] = "COMMA" THEN LetChain(next + 1)
                       ELSE Operand(next + 1)]

\* The body is a let of two or more bindings, and the parser is done with it.
LetOfSeveral ==
  /\ Whole
  /\ Body \in LetTexts
  /\ \E i \in 1..Len(Body) : Body[i] = "COMMA"
  /\ pc # "parsing"

\* C5 as stated: a let of two or more bindings is accepted without a
\* diagnostic and parses to the right-nested chain of Let nodes, one a binding.
C5_LetDesugars ==
  LetOfSeveral =>
    /\ error_list = << >>
    /\ result.node = "Program"
    /\ MethodBody = LetChain(2)

\* The tokens that end a construct of the language.
Terminators == {"SEMICOLON", "RBRACE", "RPAREN", "FI", "POOL", "ESAC"}

\* The entries of the symbol stack that are tokens.
ShiftedTokens ==
  {symstack[i] : i \in {j \in 1..Len(symstack) : "lexpos" \in DOMAIN symstack[j]}}

\* C6 as stated: after an unexpected token, no token is fed to the grammar
\* before the next terminator of the text.
C6_DiscardsToBoundary ==
  \A i \in 1..Len(error_list) : \A t \in ShiftedTokens :
    t.lexpos > error_list[i].lexpos =>
      \E j \in (error_list[i].lexpos + 1)..t.lexpos : tokens[j].type \in Terminators

\* The error handler is called: the table has no entry for the lookahead, a
\* token of the text.
HandlerCalled ==
  /\ pc = "parsing"
  /\ Entry.act = "error"
  /\ lookahead.type # "$end"

\* C6: on an unexpected token the parser discards that token and no other.
\* The call of the handler leaves the stacks as they are and clears the
\* lookahead, and recognition resumes in the same state with the token that
\* follows in the text, which the parser fetches next.
C6_DiscardsOffenderOnly ==
  [][HandlerCalled =>
       /\ statestack' = statestack
       /\ symstack' = symstack
       /\ tokens' = tokens
       /\ lookahead' = NoToken
       /\ Entry'.act = "fetch"]_vars

\* The token right after an unexpected one, no terminator, has been shifted.
C6_Witness ==
  /\ error_list # << >>
  /\ "lexpos" \in DOMAIN symstack[Len(symstack)]
  /\ symstack[Len(symstack)].lexpos = error_list[Len(error_list)].lexpos + 1
  /\ symstack[Len(symstack)].type \notin Terminators

\* C7: the parser accumulates diagnostics.  Each call of the error handler on
\* a token of the text appends one diagnostic, of that token's line, position,
\* value and kind, and parsing goes on; no other step changes error_list.
C7_Accumulates ==
  [][/\ HandlerCalled =>
          /\ error_list' = Append(error_list,
                                  [lineno |-> lookahead.lineno,
                                   lexpos |-> lookahead.lexpos,
                                   value  |-> lookahead.value,
                                   type   |-> lookahead.type])
          /\ pc' = "parsing"
     /\ ~HandlerCalled => error_list' = error_list]_vars

\* The handler has been called on three tokens of a text, and the parser has
\* gone on to build the program.
C7_Witness ==
  /\ pc = "transformed"
  /\ Len(error_list) = 3
  /\ \A i, j \in 1..3 : i < j => error_list[i].lexpos < error_list[j].lexpos

\* The diagnostics of the tokens of the text.
TokenDiagnostics == {Diagnostic(tokens[j]) : j \in 1..Len(tokens)}

\* C8 as stated: when the text ends inside an unterminated construct, so that
\* the parse fails at the end of input, error_list holds a diagnostic for it
\* that is none of a token.
C8_EndOfInputRecorded ==
  (pc # "parsing" /\ lookahead.type = "$end" /\ result.node = "None") =>
    \E i \in 1..Len(error_list) : error_list[i] \notin TokenDiagnostics

\* The arguments of a dispatch, by the text: the identifiers from the i-th
\* token of the body on, up to the closing parenthesis.
RECURSIVE ArgumentsFrom(_)
ArgumentsFrom(i) ==
  IF Body[i] = "RPAREN" THEN << >>
  ELSE IF Body[i] = "COMMA" THEN ArgumentsFrom(i + 1)
  ELSE <<Operand(i)>> \o ArgumentsFrom(i + 1)

\* DynamicDispatch(instance = Self, method = m, arguments = args), m the i-th
\* token of the body and args what follows its opening parenthesis.
DispatchOnSelf(i) ==
  [node      |-> "DynamicDispatch",
   instance  |-> [node |-> "Self", name |-> "SELF"],
   method    |-> BodyToken(i).value,
   arguments |-> ArgumentsFrom(i + 2)]

\* C9: m(args) parses to what self.m(args) parses to, the dispatch of m with
\* args on Self.
C9_SelfDispatch ==
  (Whole /\ Body \in DispatchTexts /\ pc # "parsing") =>
    /\ result.node = "Program"
    /\ error_list = << >>
    /\ Body[1] = "ID" => MethodBody = DispatchOnSelf(1)
    /\ Body[1] = "SELF" => MethodBody = DispatchOnSelf(3)

\* m(a, b), no receiver written, has been parsed.
C9_Witness ==
  /\ pc = "transformed"
  /\ Body = <<"ID", "LPAREN", "ID", "COMMA", "ID", "RPAREN">>
  /\ MethodBody.instance.node = "Self"
  /\ Len(MethodBody.arguments) = 2

\* The arms of a case, by the text: from the i-th token of the body on.
RECURSIVE ArmsFrom(_)
ArmsFrom(i) ==
  IF Body[i] = "ESAC" THEN << >>
  ELSE << <<BodyToken(i).value, BodyToken(i + 2).value, Operand(i + 4)>> >>
       \o ArmsFrom(i + 6)

\* The Case nodes the parser holds: on its stack, and in the program it built.
CaseNodes ==
  {symstack[i].value : i \in {j \in 1..Len(symstack) :
     symstack[j].type = "expression" /\ symstack[j].value.node = "Case"}}
  \cup (IF result.node = "Program" /\ MethodBody.node = "Case"
        THEN {MethodBody} ELSE {})

\* C10: a Case node has at least one action, and its actions are the arms of
\* the case, (name, type, body) each, in the order of the text; a case without
\* an arm is rejected with a diagnostic, on its esac.
C10_CaseArms ==
  /\ \A c \in CaseNodes : Len(c.actions) >= 1
  /\ (Whole /\ Body \in CaseTexts /\ result.node = "Program") =>
       /\ MethodBody.node = "Case"
       /\ MethodBody.actions = ArmsFrom(4)
  /\ (Body = <<"CASE", "ID", "OF", "ESAC">> /\ pc # "parsing") =>
       /\ error_list # << >>
       /\ error_list[1].type = "ESAC"
       /\ CaseNodes = {}

\* A case of two arms has been parsed.
C10_Witness ==
  /\ pc = "transformed"
  /\ error_list = << >>
  /\ MethodBody.node = "Case"
  /\ Len(MethodBody.actions) = 2

(***************************************************************************)
(* C11: empty lists.                                                       *)
(***************************************************************************)
\* The body is a dispatch written with nothing between its parentheses.
NoArguments ==
  /\ Body \in DispatchTexts \cup StaticDispatchTexts
  /\ Body[Len(Body) - 1] = "LPAREN"

\* C11: class C { } is accepted without a diagnostic and gives a Class whose
\* features is the empty tuple; e.m(), e@T.m() and m() are accepted without
\* a diagnostic and give a dispatch node whose arguments is the empty tuple.
C11_EmptyLists ==
  /\ (family = "classes" /\ Body \in ClassesTexts /\ pc # "parsing") =>
       /\ result.node = "Program"
       /\ error_list = << >>
       /\ \A k \in 1..Len(result.classes) : result.classes[k].features = << >>
  /\ (family = "dispatch" /\ Whole /\ NoArguments /\ pc # "parsing") =>
       /\ result.node = "Program"
       /\ error_list = << >>
       /\ MethodBody.arguments = << >>
       /\ MethodBody.node =
            (IF "AT" \in {Body[i] : i \in 1..Len(Body)}
             THEN "StaticDispatch" ELSE "DynamicDispatch")

\* class C { } ; has been parsed to a Program of one Class without features.
C11_Witness ==
  /\ pc = "transformed"
  /\ family = "classes"
  /\ Body = <<"CLASS", "TYPE", "LBRACE", "RBRACE", "SEMICOLON">>
  /\ result.classes[1].features = << >>

\* self@T.m() has been parsed to a StaticDispatch without arguments.
EmptyStaticDispatch ==
  /\ pc = "transformed" /\ family = "dispatch" /\ Whole /\ NoArguments
  /\ Body[2] = "AT" /\ MethodBody.arguments = << >>

(***************************************************************************)
(* C12: the lists of the tree.                                             *)
(***************************************************************************)
RECURSIVE ClassesFrom(_)
\* The classes declared from the i-th token on, none of them with a feature.
ClassesFrom(i) ==
  IF i > Len(tokens) THEN << >>
  ELSE IF Inherits(i)
  THEN <<[node |-> "Class", name |-> tokens[i + 1].value,
          parent |-> tokens[i + 3].value, features |-> << >>]>> \o ClassesFrom(i + 7)
  ELSE <<[node |-> "Class", name |-> tokens[i + 1].value,
          parent |-> "Object", features |-> << >>]>> \o ClassesFrom(i + 5)

RECURSIVE AttributesFrom(_)
\* The attributes declared from the i-th token on, up to the closing brace.
AttributesFrom(i) ==
  IF tokens[i].type = "RBRACE" THEN << >>
  ELSE <<[node |-> "Attribute", name |-> tokens[i].value,
          attribute_type |-> tokens[i + 2].value, expression |-> None]>>
       \o AttributesFrom(i + 4)

RECURSIVE FormalsFrom(_)
\* The formal parameters declared from the i-th token on, up to the closing
\* parenthesis.
FormalsFrom(i) ==
  IF tokens[i].type = "RPAREN" THEN << >>
  ELSE IF tokens[i].type = "COMMA" THEN FormalsFrom(i + 1)
  ELSE <<[node |-> "FormalParameter", name |-> tokens[i].value,
          parameter_type |-> tokens[i + 2].value]>> \o FormalsFrom(i + 3)

RECURSIVE StatementsFrom(_)
\* The expressions of a block from the i-th token of the body on.
StatementsFrom(i) ==
  IF Body[i] = "RBRACE" THEN << >>
  ELSE <<Operand(i)>> \o StatementsFrom(i + 2)

\* Where the argument list of the dispatch in the body starts.
FirstArgument == (CHOOSE i \in 1..Len(Body) : Body[i] = "LPAREN") + 1

\* C12: Program.classes, Class.features, Method.formal_parameters, the
\* arguments of a dispatch, Block.expression_list and Case.actions hold the
\* elements written in the text, each once and in the order of the text.
C12_ListsInOrder ==
  pc # "parsing" =>
    /\ (family = "classes" /\ Body \in ClassesTexts) =>
         result.node = "Program" /\ result.classes = ClassesFrom(1)
    /\ (family = "members" /\ Body \in MembersTexts) =>
         /\ result.node = "Program"
         /\ Len(result.classes) = 1
         /\ IF tokens[5].type = "LPAREN"
            THEN /\ Len(result.classes[1].features) = 1
                 /\ result.classes[1].features[1].formal_parameters = FormalsFrom(6)
            ELSE result.classes[1].features = AttributesFrom(4)
    /\ (family = "dispatch" /\ Whole
          /\ Body \in DispatchTexts \cup StaticDispatchTexts) =>
         result.node = "Program" /\ MethodBody.arguments = ArgumentsFrom(FirstArgument)
    /\ (family = "block" /\ Whole /\ Body \in BlockTexts) =>
         result.node = "Program" /\ MethodBody.expression_list = StatementsFrom(2)
    /\ (family = "case" /\ Whole /\ Body \in CaseTexts /\ Len(Body) > 4) =>
         result.node = "Program" /\ MethodBody.actions = ArmsFrom(4)

\* A class of three attributes has been parsed.
C12_Witness ==
  /\ pc = "transformed"
  /\ family = "members"
  /\ Body \in MembersTexts
  /\ Len(result.classes[1].features) = 3

(***************************************************************************)
(* C13: the diagnostics of a call of parse().                              *)
(***************************************************************************)
\* C13: when a call of parse() has returned, whichever calls came before it on
\* the same parser, every diagnostic in error_list is the diagnostic of a
\* token of the text given to that call.
C13_OnlyLastCall ==
  pc = "returned" =>
    \A i \in 1..Len(error_list) : error_list[i] \in TokenDiagnostics


(***************************************************************************)
(* C14: transform given no program or something other than a Program.      *)
(***************************************************************************)
\* C14: transform(None) raises ValueError and transform(x), x not a Program,
\* raises TypeError, and either leaves _program_ast, _classes_map and
\* _inheritance_graph as they were.
C14_FatalWithoutEffect ==
  [][\A x \in TransformArguments :
       Transform(x) =>
         /\ x.node = "None" =>
              /\ pc' = "ValueError"
              /\ <<program_ast, classes_map, inheritance_graph>>'
                   = <<program_ast, classes_map, inheritance_graph>>
         /\ x.node \notin {"None", "Program"} =>
              /\ pc' = "TypeError"
              /\ <<program_ast, classes_map, inheritance_graph>>'
                   = <<program_ast, classes_map, inheritance_graph>>]_vars

\* transform has raised on a Class, after it had gone through a program.
C14_Witness ==
  /\ pc = "TypeError"
  /\ program_ast.node = "Program"
  /\ DOMAIN classes_map # {}


(***************************************************************************)
(* C15: inheriting from a sealed class.                                    *)
(***************************************************************************)
\* The i-th class of the program given to transform declares a sealed parent.
DeclaresSealed(i) == result.classes[i].parent \in SealedClasses

\* C15: for every class A of the program that declares a parent among Int,
\* Bool and String, a sealed-class error names A and that parent, the
\* inheritance graph has no edge from A to the parent, and the declaration
\* has parent Object, in the program and, when it is the one the class
\* table keeps, in the table.
C15_SealedParent ==
  pc = "transformed" =>
    \A i \in 1..Len(result.classes) :
      DeclaresSealed(i) =>
        LET A == result.classes[i].name
            sealed == result.classes[i].parent
        IN  /\ \E k \in 1..Len(semantic_errors) :
                 semantic_errors[k] = [error |-> "sealed", names |-> <<A, sealed>>]
            /\ sealed \in DOMAIN inheritance_graph => A \notin inheritance_graph[sealed]
            /\ program_ast.classes[i].parent = OBJECT_CLASS
            /\ ~Redefined(result, i) =>
                 /\ A \in DOMAIN classes_map
                 /\ classes_map[A].parent = OBJECT_CLASS
                 /\ A \in inheritance_graph[OBJECT_CLASS]

\* class A inherits Int has gone through transform, with another class
\* inheriting from A.
C15_Witness ==
  /\ pc = "transformed"
  /\ DeclaresSealed(1)
  /\ Len(result.classes) > 1
  /\ result.classes[2].parent = result.classes[1].name
  /\ result.classes[2].name # result.classes[1].name
  /\ result.classes[2].name \in DOMAIN classes_map


(***************************************************************************)
(* C16: cycles of inheritance.  The classes and edges are those of the     *)
(* program given to transform, a name standing for its first declaration.  *)
(***************************************************************************)
\* The parent the program declares for the class named n.
DeclaredParent(n) ==
  result.classes[CHOOSE i \in 1..Len(result.classes) :
                   result.classes[i].name = n /\ ~Redefined(result, i)].parent

RECURSIVE Up(_, _)
\* The class k inherits edges up from the class named n.
Up(n, k) ==
  IF k = 0 \/ n \notin ClassNamesOf(result) THEN n ELSE Up(DeclaredParent(n), k - 1)

\* The classes of the cycle the class named n is on, none if it is on none.
CycleOf(n) ==
  IF \E k \in 1..Len(result.classes) : Up(n, k) = n
  THEN {Up(n, k) : k \in 1..Len(result.classes)} ELSE {}

\* The cycle errors reported for the set of classes S.
CycleErrors(S) ==
  {k \in 1..Len(semantic_errors) :
     /\ semantic_errors[k].error = "cycle"
     /\ {semantic_errors[k].names[j] : j \in 1..Len(semantic_errors[k].names)} = S}

\* The names are those of a cycle in the order of its edges, each once.
OrderedCycle(names) ==
  /\ Len(names) = Cardinality({names[j] : j \in 1..Len(names)})
  /\ \A j \in 1..Len(names) : DeclaredParent(names[j]) = names[(j % Len(names)) + 1]

\* C16: on every program the passes come to an end, with a class table of
\* classes of the program and of the language; when transform has gone
\* through a program, each cycle of the inherits edges, that of a class
\* inheriting from itself included, has been reported by exactly one error,
\* which lists the classes of the cycle in the order of the edges, nothing
\* else has been reported as a cycle, and no class on a cycle is in the
\* class table.
C16_Cycles ==
  /\ (pc = "returned" /\ result.node = "Program") =>
       DOMAIN Passes(result).classes_map \subseteq ClassNamesOf(result) \cup BuiltinClasses
  /\ pc = "transformed" =>
       /\ \A n \in ClassNamesOf(result) :
            CycleOf(n) # {} =>
              /\ n \notin DOMAIN classes_map
              /\ Cardinality(CycleErrors(CycleOf(n))) = 1
       /\ \A k \in 1..Len(semantic_errors) :
            semantic_errors[k].error = "cycle" =>
              /\ OrderedCycle(semantic_errors[k].names)
              /\ CycleOf(semantic_errors[k].names[1]) # {}

\* A program with the cycle A -> B -> A and the cycle C -> C has gone
\* through transform.
C16_Witness ==
  /\ pc = "transformed"
  /\ Len(result.classes) = 3
  /\ Cardinality(CycleOf(result.classes[1].name)) = 2
  /\ Cardinality(CycleOf(result.classes[3].name)) = 1
  /\ Len(semantic_errors) = 2


(***************************************************************************)
(* C17: the inheritance graph of the class table.                          *)
(***************************************************************************)
RECURSIVE TableUp(_, _)
\* The class k parent edges up from class n in the class table.
TableUp(n, k) ==
  IF k = 0 \/ n \notin DOMAIN classes_map THEN n
  ELSE TableUp(classes_map[n].parent, k - 1)

\* The i-th class of the program declares a parent that names no class.
DeclaresUndefined(i) ==
  result.classes[i].parent \notin ClassNamesOf(result) \cup BuiltinClasses

FirstDeclarations(program) ==
  [program EXCEPT !.classes =
     SelectSeq([i \in 1..Len(program.classes) |->
                  IF Redefined(program, i) THEN None ELSE program.classes[i]],
               LAMBDA c : c.node = "Class")]

\* The redefinition errors reported for the name n.
RedefinitionErrors(n) ==
  {k \in 1..Len(semantic_errors) :
     semantic_errors[k] = [error |-> "redefinition", names |-> <<n>>]}

\* C18: when transform has gone through a program, each declaration of a
\* name declared before it has been reported by a redefinition error; the
\* record the table holds for a name is that of its first declaration, as
\* the passes have left it in the program; and the table and the
\* inheritance graph are those of the program without the later
\* declarations.
C18_Redefinition ==
  pc = "transformed" =>
    /\ \A n \in ClassNamesOf(result) :
         /\ Cardinality(RedefinitionErrors(n))
              = Cardinality({i \in 1..Len(result.classes) :
                               result.classes[i].name = n}) - 1
         /\ n \in DOMAIN classes_map =>
              \E i \in 1..Len(result.classes) :
                /\ result.classes[i].name = n
                /\ \A j \in 1..(i - 1) : result.classes[j].name # n
                /\ classes_map[n] = program_ast.classes[i]
    /\ classes_map = Passes(FirstDeclarations(result)).classes_map
    /\ inheritance_graph
         = InheritanceGraph(Passes(FirstDeclarations(result)).classes_map)

\* A program that declares a name twice, the second time as inheriting from
\* itself, has gone through transform and the name is in the table.
C18_Witness ==
  /\ pc = "transformed"
  /\ Len(result.classes) = 2
  /\ result.classes[1].name = result.classes[2].name
  /\ result.classes[1].parent = "Object"
  /\ result.classes[2].parent = result.classes[2].name
  /\ RedefinitionErrors(result.classes[1].name) # {}
  /\ result.classes[1].name \in DOMAIN classes_map


(***************************************************************************)
(* C19, C20: conformance and join over the class table.                    *)
(***************************************************************************)
\* C19: over the class table transform has built, A <= A for every class A,
\* and A <= B and B <= C imply A <= C for all classes A, B and C.
C19_ConformancePreorder ==
  pc = "transformed" =>
    \A A \in DOMAIN classes_map :
      /\ Conforms(classes_map, A, A)
      /\ \A B \in DOMAIN classes_map :
           Conforms(classes_map, A, B) =>
             \A C \in DOMAIN classes_map :
               Conforms(classes_map, B, C) => Conforms(classes_map, A, C)

\* A program in which C inherits from B and B from A has gone through
\* transform: C <= A, and not A <= C.
C19_Witness ==
  /\ pc = "transformed"
  /\ {"A", "B", "C"} \subseteq DOMAIN classes_map
  /\ classes_map["C"].parent = "B"
  /\ classes_map["B"].parent = "A"
  /\ Conforms(classes_map, "C", "A")
  /\ ~Conforms(classes_map, "A", "C")

\* C20: over the class table transform has built, join(A, B) = join(B, A) and
\* join(A, A) = A for all classes A and B; join(A, B) is a class both conform
\* to, and it conforms to every class both conform to; the join of two
\* different children of a class is that class.
C20_Join ==
  pc = "transformed" =>
    \A A \in DOMAIN classes_map :
      /\ Join(classes_map, A, A) = A
      /\ \A B \in DOMAIN classes_map :
           LET join == Join(classes_map, A, B)
           IN  /\ join = Join(classes_map, B, A)
               /\ Conforms(classes_map, A, join)
               /\ Conforms(classes_map, B, join)
               /\ \A K \in DOMAIN classes_map :
                    Conforms(classes_map, A, K) =>
                      (Conforms(classes_map, B, K) => Conforms(classes_map, join, K))
               /\ (A # B /\ classes_map[A].parent = classes_map[B].parent
                     /\ classes_map[A].parent \in DOMAIN classes_map)
                    => join = classes_map[A].parent

\* class A {}; class B inherits A {}; class C inherits A {}; has gone through
\* transform, and join(B, C) is A.
C20_Witness ==
  /\ pc = "transformed"
  /\ {"A", "B", "C"} \subseteq DOMAIN classes_map
  /\ classes_map["A"].parent = "Object"
  /\ classes_map["B"].parent = "A"
  /\ classes_map["C"].parent = "A"
  /\ Join(classes_map, "B", "C") = "A"

\* The method of a class of the table that has the name m.
OwnMethod(n, m) ==
  LET own == SelectSeq(classes_map[n].features,
                       LAMBDA f : f.node = "Method" /\ f.name = m)
  IN  own[1]

\* The flattened methods of class n that have the name m.
FlattenedAs(n, m) ==
  SelectSeq(FlattenMethods(classes_map, n).methods, LAMBDA f : f.name = m)

\* Class n declares method m, and what its parent hands down has a method m
\* with another number of formal parameters.
OverridesWithOtherArity(n, m) ==
  /\ n \in DOMAIN classes_map
  /\ classes_map[n].parent \in DOMAIN classes_map
  /\ \E i \in 1..Len(classes_map[n].features) :
       classes_map[n].features[i].node = "Method" /\ classes_map[n].features[i].name = m
  /\ FlattenedAs(classes_map[n].parent, m) # << >>
  /\ Len(FlattenedAs(classes_map[n].parent, m)[1].formal_types)
       # Len(OwnMethod(n, m).formal_parameters)

\* C21: when a class of the table transform has built declares a method that
\* its parent hands down with another number of formal parameters, flattening
\* the class reports an override-mismatch error for the class and the method,
\* and the flattened method set of the class has, for that name, exactly the
\* signature the parent hands down.
C21_OverrideMismatch ==
  pc = "transformed" =>
    \A n \in DOMAIN classes_map :
      OverridesWithOtherArity(n, "m") =>
        /\ \E i \in 1..Len(FlattenMethods(classes_map, n).errors) :
             FlattenMethods(classes_map, n).errors[i]
               = [error |-> "override-mismatch", names |-> <<n, "m">>]
        /\ FlattenedAs(n, "m") = FlattenedAs(classes_map[n].parent, "m")

\* class A { m() : Object {..}; }; class B inherits A { m(x : Int) : Object
\* {..}; }; has gone through transform: flattening B keeps m() of A.
C21_Witness ==
  /\ pc = "transformed"
  /\ OverridesWithOtherArity("B", "m")
  /\ classes_map["B"].parent = "A"
  /\ Len(OwnMethod("B", "m").formal_parameters) = 1
  /\ FlattenedAs("B", "m")
       = <<[name |-> "m", formal_types |-> << >>, return_type |-> "Object",
            defining_class |-> "A"]>>

\* The texts that lack a terminator: a class, a feature or a block expression
\* without its semicolon, a block without an expression, a program without a
\* class.
Unterminated ==
  WithoutATerminator(TerminatedTexts) \cup {EmptyBlockText, << >>}

\* C22: when parse() has returned on a text in which a class, a feature or a
\* block expression lacks its semicolon, or a block has no expression, or the
\* program has no class, then a syntax diagnostic has been recorded or the
\* parse has failed at the end of input, printing so and returning None.
C22_Terminators ==
  (pc = "returned" /\ TypesOf(tokens) \in Unterminated) =>
    \/ error_list # << >>
    \/ result.node = "None" /\ stdout # << >>

\* class T2 { x4 ( ) : T8 { { x11 ; x13 } } ; } ; has been parsed: the second
\* expression of the block lacks its semicolon, and the closing brace that
\* follows it is reported.
C22_Witness ==
  /\ pc = "returned"
  /\ lookahead.type = "$end"
  /\ TypesOf(tokens) = <<"CLASS", "TYPE", "LBRACE", "ID", "LPAREN", "RPAREN",
                         "COLON", "TYPE", "LBRACE", "LBRACE", "ID", "SEMICOLON",
                         "ID", "RBRACE", "RBRACE", "SEMICOLON", "RBRACE",
                         "SEMICOLON">>
  /\ Len(error_list) >= 1
  /\ error_list[1].type = "RBRACE"

RECURSIVE AssignmentsIn(_)
\* The Assignment nodes of an expression made of identifiers, self and
\* assignments.
AssignmentsIn(e) ==
  IF e.node = "Assignment" THEN {e} \cup AssignmentsIn(e.expression) ELSE {}

\* The text has self <- somewhere.
AssignsToSelf ==
  \E i \in 1..(Len(Body) - 1) : Body[i] = "SELF" /\ Body[i + 1] = "ASSIGN"

\* C23: the target of every Assignment node parse() returns is an Object node
\* named by an ID token of the text, which is no reserved word and so never
\* self; and when the text has self <-, a diagnostic has been recorded by the
\* time parse() returns.
C23_NoAssignmentToSelf ==
  /\ result.node = "Program" =>
       \A a \in AssignmentsIn(MethodBody) :
         /\ a.instance.node = "Object"
         /\ a.instance.name \notin DOMAIN reserved
         /\ \E i \in 1..Len(tokens) :
              tokens[i].type = "ID" /\ tokens[i].value = a.instance.name
  /\ (pc = "returned" /\ AssignsToSelf) => error_list # << >>

\* self <- x has been parsed: the arrow is reported and dropped, so is the
\* identifier, and the body of the method is self.
C23_Witness ==
  /\ pc = "returned"
  /\ Whole
  /\ Body = <<"SELF", "ASSIGN", "ID">>
  /\ result.node = "Program"
  /\ MethodBody.node = "Self"
  /\ Len(error_list) = 2
  /\ error_list[1].type = "ASSIGN"

\* The values of the tokens of type t that have been read.
ValuesOf(t) == {tokens[i].value : i \in {j \in 1..Len(tokens) : tokens[j].type = t}}

\* C24 as stated: when parse() returns a program whose method body is a Let
\* node and has recorded no diagnostic, the expression began with the keyword
\* let, and the node has the name of an identifier of the text as instance,
\* the name of a type of the text as return_type, an expression node or None
\* as expression and an expression node as body.
C24_LetForm ==
  (pc = "returned" /\ result.node = "Program" /\ error_list = << >>
     /\ MethodBody.node = "Let") =>
    /\ Body[1] = "LET"
    /\ MethodBody.instance \in ValuesOf("ID")
    /\ MethodBody.return_type \in ValuesOf("TYPE")
    /\ MethodBody.expression.node \in {"None", "Object"}
    /\ MethodBody.body.node = "Object"

\* The Let node of the binding at the start of the body, with that body.
LetOver(b) ==
  [node |-> "Let", instance |-> BodyToken(2).value, return_type |-> BodyToken(4).value,
   expression |-> IF Body[5] = "ASSIGN" THEN Operand(6) ELSE None,
   body |-> b]

\* C25: let x : T in a op b, for each binary operator op, is accepted without
\* a diagnostic and parses to Let(x, T, None, op(a, b)), the body of the let
\* taking the whole of a op b; let x : T <- i in a op b parses to
\* Let(x, T, i, op(a, b)).
C25_LetBodyExtends ==
  (pc = "returned" /\ Whole /\ Body \in LetBodyTexts) =>
    /\ error_list = << >>
    /\ result.node = "Program"
    /\ LET in == IF Body[5] = "ASSIGN" THEN 7 ELSE 5
       IN  MethodBody
             = LetOver(Binary(in + 2, Operand(in + 1), Operand(in + 3)))

\* let x2 : T4 in x6 * x8 has been parsed, to a Let whose body is the
\* multiplication.
C25_Witness ==
  /\ pc = "returned"
  /\ Whole
  /\ Body = <<"LET", "ID", "COLON", "TYPE", "IN", "ID", "MULTIPLY", "ID">>
  /\ result.node = "Program"
  /\ MethodBody.node = "Let"
  /\ MethodBody.body.node = "Multiplication"

\* C26: every call of the error handler on a token, which records a
\* diagnostic, leaves the parser without that token as lookahead, so that the
\* next token is read before recognition goes on; an error at the end of
\* input ends the parse; and parse() on a finite text always returns.
C26_ParseTerminates ==
  /\ [][/\ Len(error_list') > Len(error_list) => lookahead' = NoToken
        /\ (pc = "parsing" /\ Entry.act = "error" /\ lookahead.type = "$end")
             => pc' = "returned"]_vars
  /\ <>(pc # "parsing")

\* parse() has returned on a text on which the error handler was called
\* three times or more.
C26_Witness ==
  /\ pc = "returned"
  /\ Len(error_list) >= 3
  /\ lookahead.type = "$end"

RECURSIVE Unclosed(_, _, _)
\* How many (* of the text up to position last are not closed by a later *),
\* reading from position i with d of them open: a *) with none open closes
\* nothing.
Unclosed(text, i, d) ==
  IF i > Len(text) THEN d
  ELSE IF i < Len(text) /\ text[i] = "(" /\ text[i + 1] = "*"
  THEN Unclosed(text, i + 2, d + 1)
  ELSE IF i < Len(text) /\ text[i] = "*" /\ text[i + 1] = ")"
  THEN Unclosed(text, i + 2, IF d > 0 THEN d - 1 ELSE 0)
  ELSE Unclosed(text, i + 1, d)

\* The markers left open by the text in front of position pos.
OpenBefore(pos) == Unclosed(SubSeq(lexer.lexdata, 1, pos - 1), 1, 0)

\* C27: whatever the lexer has read of a text of comment markers, it is
\* outside comment mode exactly when every (* it has read has been closed by
\* a later *); in comment mode the nesting counter is the number of open
\* markers less the first, so 0 on entering from the initial state; the
\* counter is never negative; and every token returned starts where no
\* comment is open.
C27_NestedComments ==
  /\ lexer.lexstate = "INITIAL" <=> OpenBefore(lexer.lexpos) = 0
  /\ lexer.lexstate = "COMMENT" => lexer.comment_count = OpenBefore(lexer.lexpos) - 1
  /\ "comment_count" \in DOMAIN lexer => lexer.comment_count >= 0
  /\ \A i \in 1..Len(tokens) : OpenBefore(tokens[i].lexpos) = 0

\* (* (* x *) x *) x has been read to its end: two comments deep at most, out
\* of the comment at the end, and the last x the only token.
C27_Witness ==
  /\ pc = "lexed"
  /\ lexer.lexdata = <<"(", "*", "(", "*", "*", ")", "*", ")", "x">>
  /\ lexer.lexstate = "INITIAL"
  /\ Len(tokens) = 1
  /\ tokens[1].lexpos = 9

\* Position i starts a word: a letter with no character of a word before it.
StartsWord(text, i) ==
  /\ InClass(text[i], "A-Z") \/ InClass(text[i], "a-z")
  /\ i = 1 \/ ~InClass(text[i - 1], "A-Za-z0-9_")

\* C28 as stated: when the lexer has read the whole text, every maximal run
\* of letters, digits and underscores that starts with a letter has given
\* exactly one token, which starts where the run starts and is a keyword, a
\* BOOLEAN, a NOT, a TYPE or an ID.
C28_MaximalMunch ==
  pc = "lexed" =>
    \A i \in 1..Len(lexer.lexdata) :
      StartsWord(lexer.lexdata, i) =>
        LET last == i + Run(lexer.lexdata, i, "A-Za-z0-9_") - 1
            from == {k \in 1..Len(tokens) : tokens[k].lexpos \in i..last}
        IN  /\ Cardinality(from) = 1
            /\ \A k \in from :
                 /\ tokens[k].lexpos = i
                 /\ tokens[k].type \in {"BOOLEAN", "NOT", "TYPE", "ID"}
                                        \cup {reserved[w] : w \in DOMAIN reserved}


====
